---------------------------- MODULE Spec2Model ----------------------------
(***************************************************************************)
(* Vitacoin rewards platform (src/backend/server.py): the reward ledger,   *)
(* the task evaluator and the realtime broadcaster as a state machine.     *)
(*                                                                         *)
(* The server is one asyncio event loop: a handler runs without            *)
(* interruption from one `await` to the next, and other handlers run while *)
(* it is suspended.  Each action below is one awaited operation (a         *)
(* MongoDB round trip or a websocket send) followed by the synchronous     *)
(* code up to the handler's next `await`.                                  *)
(*                                                                         *)
(* Time is counted in minutes since an epoch at UTC midnight.              *)
(***************************************************************************)
EXTENDS Integers, Sequences, FiniteSets, TLC

\* ------------------------------------------------------------- bounds
\* Requests (HTTP calls) issued in one behaviour.
MaxRequests == 2

\* ---------------------------------------------------------- constants
\* Python's None, for the Optional[int]/Optional[datetime] fields.
None == -1
\* timedelta(hours=24) of claim_daily_reward, and the 24 of hours_remaining.
CooldownHours == 24
MinutesPerHour == 60
\* user.activity_log[-20:]
RecentWindow == 20
\* Coin Collector: user.coins >= 100
CoinTarget == 100
\* Task Master: completed_today >= 3
TaskMasterTarget == 3

Users == {"u1", "u2"}
TaskIds == {"t1", "t2", "t3"}
Requests == 1..MaxRequests
\* The instants (minutes) at which something may happen: 0, 12 hours
\* 30 minutes, 23 hours 59 minutes, 24 hours, 24 hours 1 minute.
Instants == {0, 750, 1439, 1440, 1441}
\* Websocket objects.
Sockets == {"c1", "c2"}

VARIABLES
    clock,              \* datetime.now(timezone.utc), in minutes
    tz_aware,           \* the driver's tz_aware option: whether a datetime
                        \* read from the store carries a timezone
    users,              \* db.users: user id -> document
    tasks,              \* db.tasks: task id -> document (existing ids only)
    reward_rules,       \* db.reward_rules: set of documents
    transactions,       \* db.transactions: set of documents
    task_completions,   \* db.task_completions: set of documents
    active_connections, \* manager.active_connections: the dict's entries in
                        \* insertion order, [user, ws] or the hole a deleted
                        \* key leaves
    channel,            \* per websocket: the messages delivered to it
    closed,             \* the websockets whose peer is gone: send_text raises
    endpoint,           \* per websocket: the user and the position of its
                        \* websocket_endpoint call
    req                 \* per request: the handler's locals and its position

vars == <<clock, tz_aware, users, tasks, reward_rules, transactions,
          task_completions, active_connections, channel, closed, endpoint,
          req>>

db == <<users, tasks, reward_rules, transactions, task_completions>>
realtime == <<active_connections, channel, closed, endpoint>>

\* ------------------------------------------------------------ helpers
Range(s) == {s[i] : i \in DOMAIN s}

\* Python's int(): truncation toward zero of a / b (b > 0).
TruncDiv(a, b) == IF a >= 0 THEN a \div b ELSE -((-a) \div b)

\* s[-n:]
LastN(s, n) == IF Len(s) <= n THEN s ELSE SubSeq(s, Len(s) - n + 1, Len(s))

RECURSIVE SumAmounts(_)
SumAmounts(S) ==
    IF S = {} THEN 0
    ELSE LET x == CHOOSE y \in S : TRUE IN x.amount + SumAmounts(S \ {x})

\* class User: the fields the engine reads and writes.
NewUser == [email |-> "", role |-> "user", coins |-> 0,
            last_daily_reward |-> None, completed_tasks |-> <<>>,
            activity_log |-> <<>>]

\* str(uuid.uuid4()): the id of the i-th document request r inserts in a
\* collection (0 when it inserts one only).  No two documents share an id.
uuid4(r, i) == "id" \o ToString(r) \o "." \o ToString(i)

\* A task document no request has read yet.
NoTask == [title |-> "", category |-> "", coins_reward |-> 0, active |-> FALSE,
           max_completions |-> None, completion_count |-> 0, expires_at |-> None]

NoResponse == [status |-> 0, success |-> FALSE, outcome |-> "",
               next_reward_in |-> None, coins_earned |-> None,
               new_balance |-> None]

IdleRequest == [pc |-> "idle", kind |-> "", user |-> "", email |-> "",
                task_id |-> "",
                current_user |-> NewUser, now |-> 0, task |-> NoTask,
                points |-> 0, new_coins |-> 0, created_at |-> 0, activity_ts |-> 0, leaderboard |-> <<>>,
                ws |-> "", it_user |-> "", it_pos |-> 0, it_used |-> 0, it_len |-> 0, disconnected |-> <<>>,
                evaluations |-> <<>>, limit |-> 0, ranking |-> <<>>,
                response |-> NoResponse]

\* A handler has returned: its response and what it read are kept, its other
\* locals are gone.
Finished(rq, response) ==
    [IdleRequest EXCEPT !.pc = "done", !.kind = rq.kind, !.user = rq.user,
                        !.email = rq.email,
                        !.task_id = rq.task_id, !.current_user = rq.current_user,
                        !.now = rq.now, !.task = rq.task, !.points = rq.points,
                        !.new_coins = rq.new_coins, !.evaluations = rq.evaluations,
                        !.limit = rq.limit, !.ranking = rq.ranking,
                        !.response = response]

\* HTTPException(status_code, detail): the handler ends with an error status.
HTTPException(status, outcome) ==
    [NoResponse EXCEPT !.status = status, !.outcome = outcome]

\* An exception no handler catches: the framework answers 500.
ServerError == HTTPException(500, "ServerError")

\* ------------------------------------------------------------ realtime
\* A dict keeps its entries in an array in insertion order.  `del d[k]` empties
\* the entry of k where it is; the array is packed again only when the dict is
\* resized, which a dict that has had at most five keys inserted never is.
Hole == [user |-> "", ws |-> ""]

\* len(self.active_connections)
Size(conns) == Cardinality({i \in DOMAIN conns : conns[i] # Hole})

\* user_id in self.active_connections
IsConnected(conns, u) == u # "" /\ \E i \in DOMAIN conns : conns[i].user = u

\* self.active_connections[user_id]
SocketOf(conns, u) == conns[CHOOSE i \in DOMAIN conns : conns[i].user = u].ws

\* ConnectionManager.disconnect
disconnect(conns, u) ==
    [i \in DOMAIN conns |-> IF conns[i].user = u THEN Hole ELSE conns[i]]

RECURSIVE disconnect_all(_, _)
disconnect_all(conns, us) ==
    IF us = <<>> THEN conns
    ELSE disconnect_all(disconnect(conns, Head(us)), Tail(us))

\* self.active_connections[user_id] = websocket: the value of an existing key
\* is replaced where the key is, a new key goes to the end of the dict.
connect(conns, u, ws) ==
    IF IsConnected(conns, u)
    THEN [i \in DOMAIN conns |->
            IF conns[i].user = u THEN [user |-> u, ws |-> ws] ELSE conns[i]]
    ELSE Append(conns, [user |-> u, ws |-> ws])

Message(type, r, coins, delta, data) ==
    [type |-> type, request |-> r, coins |-> coins, delta |-> delta,
     data |-> data]

\* The text put in front of what the socket already carried.
DeliveredFirst(ch, ws, msg) == [ch EXCEPT ![ws] = <<msg>> \o @]

\* websocket.send_text on a socket that accepts the text.
Delivered(ch, ws, msg) == [ch EXCEPT ![ws] = Append(@, msg)]

\* ---------------------------------------------------------- leaderboard
\* get_leaderboard: the orders in which {"$sort": {"coins": -1}},
\* {"$limit": limit} may return the documents of `us` (balance descending,
\* documents of equal balance in an order the store does not fix), each
\* entry with rank = position.
get_leaderboard(us, limit) ==
    LET n == IF limit < Cardinality(DOMAIN us) THEN limit
             ELSE Cardinality(DOMAIN us)
        SortedByCoins ==
            {s \in [1..n -> DOMAIN us] :
                /\ \A i, j \in 1..n : i < j => s[i] # s[j]
                /\ \A i, j \in 1..n : i < j => us[s[i]].coins >= us[s[j]].coins
                /\ \A u \in DOMAIN us \ Range(s) :
                      \A i \in 1..n : us[s[i]].coins >= us[u].coins}
    IN {[i \in DOMAIN s |-> [id |-> s[i], coins |-> us[s[i]].coins, rank |-> i]] :
          s \in SortedByCoins}

\* ------------------------------------------------------------ activity
\* ActivityLogEntry(action, details), timestamp = now.  The entry is stored
\* with .dict(): its timestamp is a datetime (iso = FALSE), not an ISO-8601
\* string.
ActivityLogEntry(action, now, task_id) ==
    [action |-> action, timestamp |-> now, iso |-> FALSE, task_id |-> task_id]

\* The update written with $set: the stored log becomes the one new entry.
log_user_activity_set(us, u, action, now, task_id) ==
    [us EXCEPT ![u].activity_log = <<ActivityLogEntry(action, now, task_id)>>]

\* log_user_activity: $push on the stored document.
log_user_activity(us, u, action, now, task_id) ==
    [us EXCEPT ![u].activity_log = Append(@, ActivityLogEntry(action, now, task_id))]

\* The document of a user who registered (register) and logged in (login
\* gives the token every other route asks for) before the behaviour starts;
\* the user's id stands for the email too.
RegisteredUser(email) ==
    [NewUser EXCEPT !.email = email,
                    !.activity_log = <<ActivityLogEntry("user_registered", 0, ""),
                                       ActivityLogEntry("user_login", 0, "")>>]

\* The admin user POST /admin/init-db creates (email admin@vitacoin.com).
AdminUser == [NewUser EXCEPT !.email = "admin", !.role = "admin", !.coins = 1000]

\* The users of an initialised store: the admin of init-db, who has logged
\* in since, and the registered users.
StoredUsers ==
    [u \in Users \cup {"admin"} |->
        IF u = "admin"
        THEN [AdminUser EXCEPT !.activity_log =
                                  <<ActivityLogEntry("user_login", 0, "")>>]
        ELSE RegisteredUser(u)]

\* The users of a store init-db was never called on.
RegisteredUsers == [u \in Users |-> RegisteredUser(u)]

\* ------------------------------------------------------- shared steps
\* The code that follows a handler's last personal message:
\* `await broadcast_leaderboard_update()` starts with the aggregate query.
AfterPersonalMessages(rq) == [rq EXCEPT !.pc = "get_leaderboard"]

\* send_personal_message up to its await: `if user_id in
\* self.active_connections` picks the socket registered now; a user with no
\* connection is skipped without suspending.
send_personal_message(conns, rq, pc_send, skipped) ==
    IF IsConnected(conns, rq.user)
    THEN [rq EXCEPT !.pc = pc_send, !.ws = SocketOf(conns, rq.user)]
    ELSE skipped

\* `for user_id, connection in self.active_connections.items()`: the dict
\* iterator's next().  The iterator keeps the dict's size when the iteration
\* began (it_used), its position in the entries (it_pos) and the number of
\* entries it still expects (it_len).  It raises RuntimeError ("dictionary
\* changed size during iteration") when the size differs, skips the holes,
\* and raises RuntimeError ("dictionary keys changed during iteration") when
\* it finds an entry after it has returned as many as it expected.  Nothing
\* catches the error: the loop over `disconnected` does not run.  At the end
\* of the entries that loop runs and the handler returns its success response,
\* DailyRewardResponse(success=True, ...) / TaskCompletionResponse(success=True, ...).
BroadcastNext(conns, rq) ==
    LET rest == {i \in DOMAIN conns : i >= rq.it_pos /\ conns[i] # Hole}
        SuccessResponse ==
            [NoResponse EXCEPT !.status = 200, !.success = TRUE,
                               !.outcome = "Success",
                               !.coins_earned = rq.points,
                               !.new_balance = rq.new_coins]
    IN IF Size(conns) # rq.it_used
       THEN [conns |-> conns,
             rq |-> Finished(rq, ServerError)]
       ELSE IF rest = {}
       THEN [conns |-> disconnect_all(conns, rq.disconnected),
             rq |-> Finished(rq, SuccessResponse)]
       ELSE IF rq.it_len = 0
       THEN [conns |-> conns,
             rq |-> Finished(rq, ServerError)]
       ELSE LET i == CHOOSE j \in rest : \A k \in rest : j <= k
            IN [conns |-> conns,
                rq |-> [rq EXCEPT !.pc = "broadcast_send",
                                  !.it_user = conns[i].user,
                                  !.ws = conns[i].ws,
                                  !.it_pos = i + 1,
                                  !.it_len = @ - 1]]

\* broadcast_leaderboard_update: the aggregate query answers, then
\* broadcast_leaderboard builds the message and starts iterating.
GetLeaderboard(r) ==
    /\ req[r].pc = "get_leaderboard"
    /\ \E lb \in get_leaderboard(users, 10) :
          LET rq == [req[r] EXCEPT !.leaderboard = lb, !.it_pos = 1,
                                   !.it_used = Size(active_connections),
                                   !.it_len = Size(active_connections),
                                   !.disconnected = <<>>]
              nx == BroadcastNext(active_connections, rq)
          IN /\ req' = [req EXCEPT ![r] = nx.rq]
             /\ active_connections' = nx.conns
    /\ UNCHANGED <<clock, tz_aware, db, channel, closed, endpoint>>

\* broadcast_leaderboard: one `await connection.send_text(...)` completes
\* (delivered, or raising and caught), then the loop goes on.
BroadcastSend(r) ==
    /\ req[r].pc = "broadcast_send"
    /\ LET ok == req[r].ws \notin closed
       IN LET uid == req[r].it_user
              rq == [req[r] EXCEPT
                        !.disconnected = IF ok THEN @ ELSE Append(@, uid)]
              nx == BroadcastNext(active_connections, rq)
          IN /\ channel' = IF ok
                           THEN Delivered(channel, req[r].ws,
                                   Message("leaderboard_update", r, None, None,
                                           req[r].leaderboard))
                           ELSE channel
             /\ req' = [req EXCEPT ![r] = nx.rq]
             /\ active_connections' = nx.conns
    /\ UNCHANGED <<clock, tz_aware, db, closed, endpoint>>

\* Requests are numbered in the order in which they arrive.
Arrives(r) ==
    /\ req[r].pc = "idle"
    /\ \A q \in Requests : q < r => req[q].pc # "idle"

\* The remaining time cut to whole hours instead: int((24h - elapsed) / 1h).
hours_remaining_truncated(time_since_last) ==
    TruncDiv(CooldownHours * MinutesPerHour - time_since_last, MinutesPerHour)

\* ------------------------------------------------ POST /rewards/daily
\* hours_remaining = 24 - int(time_since_last.total_seconds() / 3600)
hours_remaining(time_since_last) ==
    CooldownHours - TruncDiv(time_since_last, MinutesPerHour)

\* A once-per-calendar-day window instead of a 24-hour one.
InCooldownSameDay(user, now) ==
    /\ user.last_daily_reward # None
    /\ now \div (CooldownHours * MinutesPerHour)
         = user.last_daily_reward \div (CooldownHours * MinutesPerHour)

\* `if current_user.last_daily_reward: ... if time_since_last < timedelta(hours=24)`
InCooldown(user, now) ==
    /\ user.last_daily_reward # None
    /\ now - user.last_daily_reward < CooldownHours * MinutesPerHour

\* The lookup without its "active": True filter.
AnyDailyRules(rules) == {x \in rules : x.key = "daily_login"}

\* db.reward_rules.find_one({"key": "daily_login", "active": True})
ActiveDailyRules(rules) == {x \in rules : x.key = "daily_login" /\ x.active}

\* get_current_user answers with the stored user; the handler reads the
\* clock and checks the cooldown, returning the not-eligible response or
\* going on to the rule lookup.
DailyReadUser(r, u) ==
    /\ Arrives(r)
    /\ LET user == users[u]
           now == clock
           rq == [req[r] EXCEPT !.kind = "daily", !.user = u,
                                !.current_user = user, !.now = now]
       IN req' = [req EXCEPT ![r] =
                    IF InCooldown(user, now)
                    THEN Finished(rq, [NoResponse EXCEPT
                                !.status = 200, !.outcome = "NotEligible",
                                !.next_reward_in =
                                    hours_remaining(now - user.last_daily_reward)])
                    ELSE [rq EXCEPT !.pc = "find_rule"]]
    /\ UNCHANGED <<clock, tz_aware, db, realtime>>

\* The rule lookup answers and the activity entry is appended at once, before
\* the balance is written.
DailyFindRuleLogged(r) ==
    /\ req[r].pc = "find_rule"
    /\ IF ActiveDailyRules(reward_rules) = {}
       THEN /\ req' = [req EXCEPT ![r] =
                          Finished(req[r], HTTPException(404, "RuleNotFound"))]
            /\ users' = users
       ELSE /\ \E rule \in ActiveDailyRules(reward_rules) :
                  req' = [req EXCEPT ![r].pc = "update_user",
                                     ![r].created_at = clock,
                                     ![r].points = rule.points,
                                     ![r].new_coins = req[r].current_user.coins + rule.points]
            /\ users' = log_user_activity(users, req[r].user, "daily_reward_claimed",
                                          clock, "")
    /\ UNCHANGED <<clock, tz_aware, tasks, reward_rules, transactions,
                   task_completions, realtime>>

\* The rule lookup answers: 404 without an active daily_login rule, else the
\* transaction and the new balance are computed from the user as read.
DailyFindRule(r) ==
    /\ req[r].pc = "find_rule"
    /\ IF ActiveDailyRules(reward_rules) = {}
       THEN req' = [req EXCEPT ![r] =
                       Finished(req[r], HTTPException(404, "RuleNotFound"))]
       ELSE \E rule \in ActiveDailyRules(reward_rules) :
               req' = [req EXCEPT ![r].pc = "update_user",
                                  ![r].created_at = clock,
                                  ![r].points = rule.points,
                                  ![r].new_coins = req[r].current_user.coins + rule.points]
    /\ UNCHANGED <<clock, tz_aware, db, realtime>>

\* db.users.update_one($set coins, last_daily_reward)
DailyUpdateUser(r) ==
    /\ req[r].pc = "update_user"
    /\ req[r].kind = "daily"
    /\ users' = [users EXCEPT ![req[r].user].coins = req[r].new_coins,
                              ![req[r].user].last_daily_reward = req[r].now]
    /\ req' = [req EXCEPT ![r].pc = "insert_tx"]
    /\ UNCHANGED <<clock, tz_aware, tasks, reward_rules, transactions,
                   task_completions, realtime>>

\* db.transactions.insert_one of Transaction(user_id, amount=rule.points,
\* type="credit", rule_key=rule.key)
DailyInsertTransaction(r) ==
    /\ req[r].pc = "insert_tx"
    /\ req[r].kind = "daily"
    /\ transactions' = transactions \cup
          {[id |-> r, user_id |-> req[r].user, amount |-> req[r].points,
            type |-> "credit", rule_key |-> "daily_login", task_id |-> "",
            created_at |-> req[r].created_at]}
    /\ req' = [req EXCEPT ![r].pc = "log_activity", ![r].activity_ts = clock]
    /\ UNCHANGED <<clock, tz_aware, users, tasks, reward_rules, task_completions,
                   realtime>>

\* log_user_activity("daily_reward_claimed"), then send_personal_message up
\* to its await.
DailyLogActivity(r) ==
    /\ req[r].pc = "log_activity"
    /\ req[r].kind = "daily"
    /\ users' = log_user_activity(users, req[r].user, "daily_reward_claimed",
                                  req[r].activity_ts, "")
    /\ req' = [req EXCEPT ![r] =
                 send_personal_message(active_connections, req[r], "send_balance",
                                       AfterPersonalMessages(req[r]))]
    /\ UNCHANGED <<clock, tz_aware, tasks, reward_rules, transactions,
                   task_completions, realtime>>

\* The balance_update send completes: delivered, or it raises and the
\* connection registered for the user is removed.
DailySendBalance(r) ==
    /\ req[r].pc = "send_balance"
    /\ req[r].kind = "daily"
    /\ LET ok == req[r].ws \notin closed
       IN /\ channel' = IF ok
                        THEN Delivered(channel, req[r].ws,
                                Message("balance_update", r, req[r].new_coins,
                                        req[r].points, <<>>))
                        ELSE channel
          /\ active_connections' = IF ok THEN active_connections
                                   ELSE disconnect(active_connections, req[r].user)
    /\ req' = [req EXCEPT ![r] = AfterPersonalMessages(req[r])]
    /\ UNCHANGED <<clock, tz_aware, db, closed, endpoint>>

\* The action looked for in the whole activity log.
InAnyActivity(user, action) ==
    \E i \in DOMAIN user.activity_log : user.activity_log[i].action = action

\* ------------------------------------------------------ task evaluator
\* any(activity.get("action") == action for activity in user.activity_log[-20:])
InRecentActivity(user, action) ==
    \E i \in DOMAIN LastN(user.activity_log, RecentWindow) :
        LastN(user.activity_log, RecentWindow)[i].action = action

\* datetime.date(): the UTC calendar day of a timestamp.
DateOf(t) == t \div (24 * MinutesPerHour)

\* The comparison written with > instead of >=.
HasMoreThanTargetCoins(user) == user.coins > CoinTarget

\* `if user.coins >= 100`
HasTargetCoins(user) == user.coins >= CoinTarget

\* A progress dict: its status tag, the actions and the amount its
\* description names as missing, and the current and target fields a
\* predicate adds.
Progress(status, needed, current, target, remaining) ==
    [status |-> status, needed |-> needed, current |-> current, target |-> target,
     remaining |-> remaining]

Evaluation(can_claim, progress) ==
    [can_claim |-> can_claim, raises |-> FALSE, progress |-> progress]

\* check_task_requirements(user, task), `today` the day it is called on.
\* The predicate is chosen by the task's title.  Task Master counts as
\* completed_today the task_completed entries of the whole log whose
\* timestamp is of the day `today`; its loop raises when a timestamp is a
\* datetime: datetime.replace("Z", "+00:00") is a TypeError.
check_task_requirements(user, task, today) ==
    CASE task.title = "First Login" ->
            Evaluation(TRUE, Progress("completed", <<>>, None, None, None))
      [] task.title = "Profile Explorer" ->
            LET viewed_profile == InRecentActivity(user, "viewed_profile")
                viewed_transactions == InRecentActivity(user, "viewed_transactions")
                needed ==
                    (IF viewed_profile THEN <<>> ELSE <<"View your profile">>)
                    \o (IF viewed_transactions THEN <<>>
                        ELSE <<"Check your transaction history">>)
            IN IF viewed_profile /\ viewed_transactions
               THEN Evaluation(TRUE, Progress("completed", <<>>, None, None, None))
               ELSE Evaluation(FALSE, Progress("in_progress", needed, None, None, None))
      [] task.title = "Social Butterfly" ->
            IF InRecentActivity(user, "viewed_leaderboard")
            THEN Evaluation(TRUE, Progress("completed", <<>>, None, None, None))
            ELSE Evaluation(FALSE, Progress("in_progress", <<>>, None, None, None))
      [] task.title = "Community Member" ->
            Evaluation(TRUE, Progress("completed", <<>>, None, None, None))
      [] task.title = "Coin Collector" ->
            IF HasTargetCoins(user)
            THEN Evaluation(TRUE, Progress("completed", <<>>, None, None, None))
            ELSE Evaluation(FALSE, Progress("in_progress", <<>>, user.coins, CoinTarget,
                                            CoinTarget - user.coins))
      [] task.title = "Task Master" ->
            LET completed == {i \in DOMAIN user.activity_log :
                                user.activity_log[i].action = "task_completed"}
                completed_today ==
                    Cardinality({i \in completed :
                                   DateOf(user.activity_log[i].timestamp) = today})
            IN IF \E i \in completed : ~user.activity_log[i].iso
               THEN [can_claim |-> FALSE, raises |-> TRUE,
                     progress |-> Progress("", <<>>, None, None, None)]
               ELSE IF completed_today >= TaskMasterTarget
               THEN Evaluation(TRUE, Progress("completed", <<>>, None, None, None))
               ELSE Evaluation(FALSE, Progress("in_progress", <<>>, completed_today,
                                               TaskMasterTarget,
                                               TaskMasterTarget - completed_today))
      [] OTHER ->
            Evaluation(TRUE, Progress("completed", <<>>, None, None, None))

\* ------------------------------------------------------------ GET /tasks
\* db.tasks.find({"active": True, "$or": [{"expires_at": None},
\*                                         {"expires_at": {"$gt": now}}]})
ListedTasks(ts, now) ==
    {t \in DOMAIN ts :
        ts[t].active /\ (ts[t].expires_at = None \/ ts[t].expires_at > now)}

\* The TaskWithProgress built for one listed task: a completed task is not
\* evaluated, any other gets the evaluator's progress and can_claim.
TaskWithProgress(user, task, task_id, today) ==
    IF task_id \in Range(user.completed_tasks)
    THEN [can_claim |-> FALSE, is_completed |-> TRUE, raises |-> FALSE,
          progress |-> Progress("completed", <<>>, None, None, None)]
    ELSE LET req_check == check_task_requirements(user, task, today)
         IN [can_claim |-> req_check.can_claim, is_completed |-> FALSE,
             raises |-> req_check.raises, progress |-> req_check.progress]

\* get_current_user answers with the stored user; the handler builds its
\* query with the time it reads.
TasksReadUser(r, u) ==
    /\ Arrives(r)
    /\ req' = [req EXCEPT ![r].pc = "find_tasks", ![r].kind = "tasks",
                          ![r].user = u, ![r].current_user = users[u],
                          ![r].now = clock]
    /\ UNCHANGED <<clock, tz_aware, db, realtime>>

\* The listing logging a "viewed_tasks" activity as the transactions and
\* leaderboard listings log theirs.
TasksFindLogging(r) ==
    /\ req[r].pc = "find_tasks"
    /\ LET listed == ListedTasks(tasks, req[r].now)
           evaluations ==
               [t \in listed |->
                   TaskWithProgress(req[r].current_user, tasks[t], t, DateOf(clock))]
           rq == [req[r] EXCEPT !.evaluations = evaluations]
       IN req' = [req EXCEPT ![r] =
                    Finished(rq, [NoResponse EXCEPT !.status = 200,
                                                    !.success = TRUE,
                                                    !.outcome = "Success"])]
    /\ users' = log_user_activity(users, req[r].user, "viewed_tasks", clock, "")
    /\ UNCHANGED <<clock, tz_aware, tasks, reward_rules, transactions,
                   task_completions, realtime>>

\* db.tasks.find answers; the loop evaluates every listed task for the user
\* as read (check_task_requirements has no await of its own) and the handler
\* returns the list, or ends with the exception an evaluation raised.
TasksFind(r) ==
    /\ req[r].pc = "find_tasks"
    /\ LET listed == ListedTasks(tasks, req[r].now)
           evaluations ==
               [t \in listed |->
                   TaskWithProgress(req[r].current_user, tasks[t], t, DateOf(clock))]
           rq == [req[r] EXCEPT !.evaluations = evaluations]
       IN req' = [req EXCEPT ![r] =
                    IF \E t \in listed : evaluations[t].raises
                    THEN Finished(rq, ServerError)
                    ELSE Finished(rq, [NoResponse EXCEPT !.status = 200,
                                                         !.success = TRUE,
                                                         !.outcome = "Success"])]
    /\ UNCHANGED <<clock, tz_aware, db, realtime>>

\* ------------------------------------------------------ GET /leaderboard
\* get_current_user answers with the stored user; the handler starts, with
\* its `limit` query parameter, and logs the view.
LeaderboardReadUser(r, u, limit) ==
    /\ Arrives(r)
    /\ req' = [req EXCEPT ![r].pc = "log_view", ![r].kind = "leaderboard",
                          ![r].user = u, ![r].current_user = users[u],
                          ![r].limit = limit, ![r].now = clock]
    /\ UNCHANGED <<clock, tz_aware, db, realtime>>

\* await log_user_activity(current_user.id, "viewed_leaderboard")
LeaderboardLogView(r) ==
    /\ req[r].pc = "log_view"
    /\ users' = log_user_activity(users, req[r].user, "viewed_leaderboard",
                                  req[r].now, "")
    /\ req' = [req EXCEPT ![r].pc = "aggregate"]
    /\ UNCHANGED <<clock, tz_aware, tasks, reward_rules, transactions,
                   task_completions, realtime>>

\* return await get_leaderboard(limit): the aggregate answers with the
\* documents in one of the orders the store may give them.
LeaderboardAggregate(r) ==
    /\ req[r].pc = "aggregate"
    /\ \E lb \in get_leaderboard(users, req[r].limit) :
          req' = [req EXCEPT ![r] =
                    Finished([req[r] EXCEPT !.ranking = lb],
                             [NoResponse EXCEPT !.status = 200, !.success = TRUE,
                                                !.outcome = "Success"])]
    /\ UNCHANGED <<clock, tz_aware, db, realtime>>

\* ------------------------------------------- POST /tasks/{task_id}/claim
\* db.tasks.find_one({"id": task_id, "active": True}) finds a document.
TaskFound(ts, task_id) == task_id \in DOMAIN ts /\ ts[task_id].active

\* The checks of claim_task_reward, in the order of the code; "Pass" when
\* none ends the request.  `task.expires_at < now` compares the stored
\* expiry, which carries a timezone only if the driver is tz_aware, with the
\* timezone-aware `now`: comparing a naive with an aware datetime raises
\* TypeError.  In `task.max_completions and task.completion_count >=
\* task.max_completions` None and 0 are both false.
claim_checks(user, found, task, task_id, now, aware) ==
    IF ~found THEN "TaskNotFound"
    ELSE IF task.expires_at # None /\ ~aware THEN "ServerError"
    ELSE IF task.expires_at # None /\ task.expires_at < now THEN "TaskExpired"
    ELSE IF \E i \in DOMAIN user.completed_tasks : user.completed_tasks[i] = task_id
         THEN "AlreadyCompleted"
    ELSE IF check_task_requirements(user, task, DateOf(now)).raises THEN "ServerError"
    ELSE IF ~check_task_requirements(user, task, DateOf(now)).can_claim
         THEN "RequirementsNotMet"
    ELSE IF /\ task.max_completions # None
            /\ task.max_completions # 0
            /\ task.completion_count >= task.max_completions
         THEN "CompletionLimitReached"
    ELSE "Pass"

\* The status code of each way the handler raises.
StatusOf(outcome) ==
    CASE outcome = "TaskNotFound" -> 404
      [] outcome = "ServerError" -> 500
      [] OTHER -> 400

\* get_current_user answers with the stored user; the handler starts and
\* looks the task up.
ClaimReadUser(r, u, t) ==
    /\ Arrives(r)
    /\ req' = [req EXCEPT ![r].pc = "find_task", ![r].kind = "claim",
                          ![r].user = u, ![r].task_id = t,
                          ![r].current_user = users[u]]
    /\ UNCHANGED <<clock, tz_aware, db, realtime>>

\* The lookup counts the completion at once, before the checks are made.
ClaimFindTaskCounting(r) ==
    /\ req[r].pc = "find_task"
    /\ LET t == req[r].task_id
           found == TaskFound(tasks, t)
           task == IF found THEN tasks[t] ELSE NoTask
           now == clock
           outcome == claim_checks(req[r].current_user, found, task, t, now, tz_aware)
           rq == [req[r] EXCEPT !.task = task, !.now = now]
       IN /\ req' = [req EXCEPT ![r] =
                       IF outcome = "Pass"
                       THEN [rq EXCEPT !.pc = "update_user",
                                       !.created_at = now,
                                       !.points = task.coins_reward,
                                       !.new_coins = rq.current_user.coins + task.coins_reward]
                       ELSE Finished(rq, HTTPException(StatusOf(outcome), outcome))]
          /\ tasks' = IF found THEN [tasks EXCEPT ![t].completion_count = @ + 1]
                      ELSE tasks
    /\ UNCHANGED <<clock, tz_aware, users, reward_rules, transactions,
                   task_completions, realtime>>

\* The task lookup answers; the handler runs its checks and either raises or
\* builds the completion, the transaction and the new balance from the user
\* as read.
ClaimFindTask(r) ==
    /\ req[r].pc = "find_task"
    /\ LET t == req[r].task_id
           found == TaskFound(tasks, t)
           task == IF found THEN tasks[t] ELSE NoTask
           now == clock
           outcome == claim_checks(req[r].current_user, found, task, t, now, tz_aware)
           rq == [req[r] EXCEPT !.task = task, !.now = now]
       IN req' = [req EXCEPT ![r] =
                    IF outcome = "Pass"
                    THEN [rq EXCEPT !.pc = "update_user",
                                    !.created_at = now,
                                    !.points = task.coins_reward,
                                    !.new_coins = rq.current_user.coins + task.coins_reward]
                    ELSE Finished(rq, HTTPException(StatusOf(outcome), outcome))]
    /\ UNCHANGED <<clock, tz_aware, db, realtime>>

\* db.users.update_one($set coins, completed_tasks): both computed from the
\* user as read by get_current_user.
ClaimUpdateUser(r) ==
    /\ req[r].pc = "update_user"
    /\ req[r].kind = "claim"
    /\ users' = [users EXCEPT
                   ![req[r].user].coins = req[r].new_coins,
                   ![req[r].user].completed_tasks =
                        Append(req[r].current_user.completed_tasks, req[r].task_id)]
    /\ req' = [req EXCEPT ![r].pc = "inc_task"]
    /\ UNCHANGED <<clock, tz_aware, tasks, reward_rules, transactions,
                   task_completions, realtime>>

\* db.tasks.update_one({"id": task_id}, {"$inc": {"completion_count": 1}})
ClaimIncTask(r) ==
    /\ req[r].pc = "inc_task"
    /\ tasks' = IF req[r].task_id \in DOMAIN tasks
                THEN [tasks EXCEPT ![req[r].task_id].completion_count = @ + 1]
                ELSE tasks
    /\ req' = [req EXCEPT ![r].pc = "insert_completion"]
    /\ UNCHANGED <<clock, tz_aware, users, reward_rules, transactions,
                   task_completions, realtime>>

\* TaskCompletion(user_id, task_id, coins_earned=task.coins_reward)
TaskCompletion(r, rq) ==
    [id |-> r, user_id |-> rq.user, task_id |-> rq.task_id,
     coins_earned |-> rq.task.coins_reward, completed_at |-> rq.created_at]

\* db.task_completions.insert_one
ClaimInsertCompletion(r) ==
    /\ req[r].pc = "insert_completion"
    /\ task_completions' = task_completions \cup {TaskCompletion(r, req[r])}
    /\ req' = [req EXCEPT ![r].pc = "insert_tx"]
    /\ UNCHANGED <<clock, tz_aware, users, tasks, reward_rules, transactions,
                   realtime>>

\* Transaction(amount=task.coins_reward, type="credit",
\*             rule_key=f"task_{task.category}", task_id=task_id)
ClaimTransaction(r, rq) ==
    [id |-> r, user_id |-> rq.user, amount |-> rq.task.coins_reward,
     type |-> "credit", rule_key |-> "task_" \o rq.task.category,
     task_id |-> rq.task_id, created_at |-> rq.created_at]

\* db.transactions.insert_one
ClaimInsertTransaction(r) ==
    /\ req[r].pc = "insert_tx"
    /\ req[r].kind = "claim"
    /\ transactions' = transactions \cup {ClaimTransaction(r, req[r])}
    /\ req' = [req EXCEPT ![r].pc = "log_activity", ![r].activity_ts = clock]
    /\ UNCHANGED <<clock, tz_aware, users, tasks, reward_rules, task_completions,
                   realtime>>

\* The second send_personal_message (task_completed) up to its await.
ClaimSecondMessage(conns, rq) ==
    send_personal_message(conns, rq, "send_task_completed", AfterPersonalMessages(rq))

\* log_user_activity("task_completed"), then the first send_personal_message
\* (balance_update) up to its await.
ClaimLogActivity(r) ==
    /\ req[r].pc = "log_activity"
    /\ req[r].kind = "claim"
    /\ users' = log_user_activity(users, req[r].user, "task_completed",
                                  req[r].activity_ts, req[r].task_id)
    /\ req' = [req EXCEPT ![r] =
                 send_personal_message(active_connections, req[r], "send_balance",
                                       ClaimSecondMessage(active_connections, req[r]))]
    /\ UNCHANGED <<clock, tz_aware, tasks, reward_rules, transactions,
                   task_completions, realtime>>

\* The balance_update send completes: delivered, or it raises and the
\* connection registered for the user is removed.
ClaimSendBalance(r) ==
    /\ req[r].pc = "send_balance"
    /\ req[r].kind = "claim"
    /\ LET ok == req[r].ws \notin closed
       IN /\ channel' = IF ok
                        THEN Delivered(channel, req[r].ws,
                                Message("balance_update", r, req[r].new_coins,
                                        req[r].points, <<>>))
                        ELSE channel
          /\ active_connections' = IF ok THEN active_connections
                                   ELSE disconnect(active_connections, req[r].user)
          /\ req' = [req EXCEPT ![r] = ClaimSecondMessage(active_connections', req[r])]
    /\ UNCHANGED <<clock, tz_aware, db, closed, endpoint>>

\* The task_completed send completes.
ClaimSendTaskCompleted(r) ==
    /\ req[r].pc = "send_task_completed"
    /\ LET ok == req[r].ws \notin closed
       IN /\ channel' = IF ok
                        THEN Delivered(channel, req[r].ws,
                                Message("task_completed", r, None,
                                        req[r].points, <<>>))
                        ELSE channel
          /\ active_connections' = IF ok THEN active_connections
                                   ELSE disconnect(active_connections, req[r].user)
    /\ req' = [req EXCEPT ![r] = AfterPersonalMessages(req[r])]
    /\ UNCHANGED <<clock, tz_aware, db, closed, endpoint>>

\* ------------------------------------------------------- /ws/{user_id}
\* A client opens websocket ws as user u: websocket_endpoint starts and
\* manager.connect awaits websocket.accept().
WsOpen(ws, u) ==
    /\ endpoint[ws].state = "free"
    /\ endpoint' = [endpoint EXCEPT ![ws] =
                      [user |-> u, state |-> "accepting", since |-> 0]]
    /\ UNCHANGED <<clock, tz_aware, db, active_connections, channel, closed, req>>

\* accept() returns: manager.connect registers the websocket under the user
\* id and the endpoint enters its receive loop.
WsAccepted(ws) ==
    /\ endpoint[ws].state = "accepting"
    /\ active_connections' = connect(active_connections, endpoint[ws].user, ws)
    /\ endpoint' = [endpoint EXCEPT
                      ![ws].state = "open",
                      ![ws].since = 1 + Cardinality({w \in Sockets :
                                          endpoint[w].state \notin {"free", "accepting"}})]
    /\ UNCHANGED <<clock, tz_aware, db, channel, closed, req>>

\* The client of an open websocket goes away: a send_text to it raises from
\* now on and the pending receive_text will raise WebSocketDisconnect.
WsClose(ws) ==
    /\ endpoint[ws].state = "open"
    /\ closed' = closed \cup {ws}
    /\ endpoint' = [endpoint EXCEPT ![ws].state = "closing"]
    /\ UNCHANGED <<clock, tz_aware, db, active_connections, channel, req>>

\* `except WebSocketDisconnect: manager.disconnect(user_id)`: the endpoint
\* removes the entry of its user id, whichever websocket it holds.
WsDisconnected(ws) ==
    /\ endpoint[ws].state = "closing"
    /\ active_connections' = disconnect(active_connections, endpoint[ws].user)
    /\ endpoint' = [endpoint EXCEPT ![ws].state = "ended"]
    /\ UNCHANGED <<clock, tz_aware, db, channel, closed, req>>

\* ------------------------------------------------- accounts and activity
\* The routes that record that their caller looked at something: GET /auth/me,
\* POST /activities/view-transactions, POST /activities/view-leaderboard, and
\* GET /transactions, which then lists the caller's transactions.  The action
\* each of them logs:
ViewAction(route) ==
    CASE route = "get_current_user_info" -> "viewed_profile"
      [] route = "track_view_leaderboard" -> "viewed_leaderboard"
      [] OTHER -> "viewed_transactions"

\* The default of get_user_transactions' `limit` (offset = 0).
PageSize == 20

\* The handler returns its result: a document or a list of documents.
Returned == [NoResponse EXCEPT !.status = 200, !.outcome = "Ok"]

\* get_current_user answers with the stored user; the handler builds its
\* ActivityLogEntry and issues the $push.
ViewReadUser(r, u, route) ==
    /\ Arrives(r)
    /\ u \in DOMAIN users
    /\ req' = [req EXCEPT ![r].pc = "push_view", ![r].kind = route,
                          ![r].user = u, ![r].current_user = users[u],
                          ![r].now = clock]
    /\ UNCHANGED <<clock, tz_aware, db, realtime>>

\* await log_user_activity(current_user.id, ...): the $push is applied;
\* get_user_transactions goes on to its query, get_current_user_info returns
\* the user and the others {"success": True, "message": "Activity tracked"}.
ViewLogActivity(r) ==
    /\ req[r].pc = "push_view"
    /\ users' = log_user_activity(users, req[r].user, ViewAction(req[r].kind),
                                  req[r].now, "")
    /\ req' = [req EXCEPT ![r] =
                 IF req[r].kind = "get_user_transactions"
                 THEN [req[r] EXCEPT !.pc = "find_transactions"]
                 ELSE IF req[r].kind = "get_current_user_info"
                 THEN Finished(req[r], Returned)
                 ELSE Finished(req[r], [NoResponse EXCEPT
                                          !.status = 200, !.success = TRUE,
                                          !.outcome = "Activity tracked"])]
    /\ UNCHANGED <<clock, tz_aware, tasks, reward_rules, transactions,
                   task_completions, realtime>>

\* The ids of the documents .sort("created_at", -1).skip(0).limit(limit) may
\* return: newest first, documents of one instant in an order the store does
\* not fix.
NewestFirst(txs, limit) ==
    LET n == IF limit < Cardinality(txs) THEN limit ELSE Cardinality(txs)
    IN {s \in [1..n -> txs] :
          /\ \A i, j \in 1..n : i < j => s[i] # s[j]
          /\ \A i, j \in 1..n : i < j => s[i].created_at >= s[j].created_at
          /\ \A tx \in txs \ Range(s) :
                \A i \in 1..n : s[i].created_at >= tx.created_at}

\* get_user_transactions: db.transactions.find({"user_id": ...}) answers.
TransactionsFind(r) ==
    /\ req[r].pc = "find_transactions"
    /\ \E s \in NewestFirst({tx \in transactions : tx.user_id = req[r].user},
                            PageSize) :
          req' = [req EXCEPT ![r] =
                    Finished([req[r] EXCEPT !.ranking = [i \in DOMAIN s |-> s[i].id]],
                             Returned)]
    /\ UNCHANGED <<clock, tz_aware, db, realtime>>

\* The orders in which .sort("completed_at", -1).to_list(length=None) may
\* return the documents: latest first, documents of one instant in an order
\* the store does not fix.
LatestFirst(cs) ==
    {s \in [1..Cardinality(cs) -> cs] :
        /\ \A i, j \in DOMAIN s : i < j => s[i] # s[j]
        /\ \A i, j \in DOMAIN s : i < j => s[i].completed_at >= s[j].completed_at}

\* get_completed_tasks: get_current_user answers with the stored user and
\* the query of the caller's completions is issued.
CompletedReadUser(r, u) ==
    /\ Arrives(r)
    /\ u \in DOMAIN users
    /\ req' = [req EXCEPT ![r].pc = "find_completions",
                          ![r].kind = "get_completed_tasks",
                          ![r].user = u, ![r].current_user = users[u]]
    /\ UNCHANGED <<clock, tz_aware, db, realtime>>

\* db.task_completions.find({"user_id": ...}) answers.
CompletedFind(r) ==
    /\ req[r].pc = "find_completions"
    /\ \E s \in LatestFirst({c \in task_completions : c.user_id = req[r].user}) :
          req' = [req EXCEPT ![r] =
                    Finished([req[r] EXCEPT !.ranking = [i \in DOMAIN s |-> s[i].id]],
                             Returned)]
    /\ UNCHANGED <<clock, tz_aware, db, realtime>>

\* login: find_one({"email": ...}) answers.  Without a document, or with a
\* password that does not verify, 401; else the token is made and the $push
\* of the user_login entry is issued.
LoginFindUser(r, email, password_ok) ==
    /\ Arrives(r)
    /\ LET found == {u \in DOMAIN users : users[u].email = email}
           rq == [req[r] EXCEPT !.kind = "login", !.email = email]
       IN IF found = {} \/ ~password_ok
          THEN req' = [req EXCEPT ![r] =
                         Finished(rq, HTTPException(401, "InvalidCredentials"))]
          ELSE \E u \in found :
                  req' = [req EXCEPT ![r] =
                            [rq EXCEPT !.pc = "login_log", !.user = u,
                                       !.current_user = users[u],
                                       !.now = clock]]
    /\ UNCHANGED <<clock, tz_aware, db, realtime>>

\* await log_user_activity(user.id, "user_login"), then the token is returned.
LoginLogActivity(r) ==
    /\ req[r].pc = "login_log"
    /\ users' = log_user_activity(users, req[r].user, "user_login", req[r].now, "")
    /\ req' = [req EXCEPT ![r] = Finished(req[r], Returned)]
    /\ UNCHANGED <<clock, tz_aware, tasks, reward_rules, transactions,
                   task_completions, realtime>>

\* register: find_one({"email": ...}) answers.  400 when a document has the
\* email; else the User is built, with a new id, and its insert is issued.
RegisterFindUser(r, email) ==
    /\ Arrives(r)
    /\ LET rq == [req[r] EXCEPT !.kind = "register", !.email = email]
       IN req' = [req EXCEPT ![r] =
                    IF \E u \in DOMAIN users : users[u].email = email
                    THEN Finished(rq, HTTPException(400, "EmailRegistered"))
                    ELSE [rq EXCEPT !.pc = "register_insert",
                                    !.user = uuid4(r, 0)]]
    /\ UNCHANGED <<clock, tz_aware, db, realtime>>

\* await db.users.insert_one(user.dict()); then the user_registered entry is
\* built and its $push issued.
RegisterInsertUser(r) ==
    /\ req[r].pc = "register_insert"
    /\ users' = [u \in DOMAIN users \cup {req[r].user} |->
                    IF u \in DOMAIN users THEN users[u]
                    ELSE [NewUser EXCEPT !.email = req[r].email]]
    /\ req' = [req EXCEPT ![r].pc = "register_log", ![r].now = clock]
    /\ UNCHANGED <<clock, tz_aware, tasks, reward_rules, transactions,
                   task_completions, realtime>>

\* await log_user_activity(user.id, "user_registered", ...), then the
\* UserResponse is returned.
RegisterLogActivity(r) ==
    /\ req[r].pc = "register_log"
    /\ users' = log_user_activity(users, req[r].user, "user_registered",
                                  req[r].now, "")
    /\ req' = [req EXCEPT ![r] = Finished(req[r], Returned)]
    /\ UNCHANGED <<clock, tz_aware, tasks, reward_rules, transactions,
                   task_completions, realtime>>

\* ---------------------------------------------------------- environment
\* Time passes: datetime.now(timezone.utc) never goes back.  The clock may
\* advance between any two steps, also while a handler is suspended in an
\* await, so that the instants one request reads (its `now`, the created_at
\* of its Transaction, the timestamp of its ActivityLogEntry) may differ.
Tick(t) ==
    /\ t > clock
    /\ clock' = t
    /\ UNCHANGED <<tz_aware, db, realtime, req>>

\* ------------------------------------------------------ admin: rules
\* class RewardRule: the fields the engine reads, and the id of the stored
\* document ("" until it is inserted).
RewardRule(key, points, active, cooldown_hours) ==
    [id |-> "", key |-> key, points |-> points, active |-> active,
     cooldown_hours |-> cooldown_hours]

\* The daily_login rules an admin may post (POST /admin/rules): RewardRule
\* with its cooldown_hours and active flag.  No route changes or removes a
\* stored rule.
RuleData ==
    {RewardRule("daily_login", 10, TRUE, 24),
     RewardRule("daily_login", 10, TRUE, 12),
     RewardRule("daily_login", 10, FALSE, 24)}

\* `rules` of init-db, in the order of the code.
DefaultRules ==
    <<RewardRule("daily_login", 10, TRUE, 24),
      RewardRule("task_daily", 5, TRUE, None),
      RewardRule("task_weekly", 25, TRUE, None),
      RewardRule("task_achievement", 50, TRUE, None)>>

\* The rules of a store on which init-db has run: a rule is inserted for
\* every key of `rules` no stored rule has.  The daily_login rule is `d`:
\* the default one, or the one an admin posted before init-db looked for
\* the key.
StoredRules(d) ==
    {[(IF i = 1 THEN d ELSE DefaultRules[i]) EXCEPT !.id = "rule" \o ToString(i)] :
        i \in DOMAIN DefaultRules}

\* ---------------------------------------------------------------- init
\* A websocket_endpoint call in its receive loop for every connection open
\* when the behaviour starts; the other websockets are not yet used.
InitEndpoints(conns) ==
    [ws \in Sockets |->
        IF \E i \in DOMAIN conns : conns[i].ws = ws
        THEN [user |-> conns[CHOOSE i \in DOMAIN conns : conns[i].ws = ws].user,
              state |-> "open", since |-> 0]
        ELSE [user |-> "", state |-> "free", since |-> 0]]

\* The connections open when the behaviour starts.
ConnInits == {<<[user |-> "u1", ws |-> "c1"]>>}

InitCommon ==
    /\ users = StoredUsers
    /\ transactions = {}
    /\ task_completions = {}
    /\ active_connections \in ConnInits
    /\ channel = [ws \in Sockets |-> <<>>]
    /\ closed = {}
    /\ endpoint = InitEndpoints(active_connections)
    /\ req = [r \in Requests |-> IdleRequest]

\* ----------------------------------------------- the daily reward alone
\* init-db was never called (no rule, no task, no admin), or it has run and
\* the daily_login rule is any of those an admin may have posted; the tasks
\* were deleted since (DELETE /admin/tasks).
DailyStores ==
    /\ \/ users = RegisteredUsers /\ reward_rules = {}
       \/ users = StoredUsers /\ reward_rules \in {StoredRules(d) : d \in RuleData}
    /\ tasks = <<>>
    /\ transactions = {}
    /\ task_completions = {}

InitDaily ==
    /\ DailyStores
    /\ active_connections \in ConnInits
    /\ channel = [ws \in Sockets |-> <<>>]
    /\ closed = {}
    /\ endpoint = InitEndpoints(active_connections)
    /\ req = [r \in Requests |-> IdleRequest]
    /\ clock = 0
    /\ tz_aware = FALSE

\* The steps of a daily call after its user was read.
DailyProgress(r) ==
    \/ DailyFindRule(r)
    \/ DailyUpdateUser(r)
    \/ DailyInsertTransaction(r)
    \/ DailyLogActivity(r)
    \/ DailySendBalance(r)

DailyStep(r) ==
    \/ \E u \in Users : DailyReadUser(r, u)
    \/ DailyFindRule(r)
    \/ DailyUpdateUser(r)
    \/ DailyInsertTransaction(r)
    \/ DailyLogActivity(r)
    \/ DailySendBalance(r)

BroadcastStep(r) ==
    \/ GetLeaderboard(r)
    \/ BroadcastSend(r)

NextDaily ==
    \/ \E r \in Requests : DailyStep(r) \/ BroadcastStep(r)
    \/ \E t \in Instants : Tick(t)

SpecDaily == InitDaily /\ [][NextDaily]_vars

\* ------------------------------------------------- the cooldown alone
\* One user calls for the daily reward, again and again, from the first
\* minute of a day to the first minute of the next; nobody is connected, so
\* a call sends no personal message and its broadcast finds no websocket.
InitCooldown ==
    /\ DailyStores
    /\ active_connections = <<>>
    /\ channel = [ws \in Sockets |-> <<>>]
    /\ closed = {}
    /\ endpoint = InitEndpoints(active_connections)
    /\ req = [r \in Requests |-> IdleRequest]
    /\ clock = 0
    /\ tz_aware = FALSE

NextCooldown ==
    \/ \E r \in Requests :
          \/ DailyReadUser(r, "u1")
          \/ DailyFindRule(r)
          \/ DailyUpdateUser(r)
          \/ DailyInsertTransaction(r)
          \/ DailyLogActivity(r)
          \/ GetLeaderboard(r)
    \/ \E t \in {24 * MinutesPerHour - 1, 24 * MinutesPerHour} : Tick(t)

SpecCooldown == InitCooldown /\ [][NextCooldown]_vars

\* ------------------------------------------------- the refusals alone
\* The connected user calls for the daily reward in the last minute of a
\* day and in the first minute of the next.
InitRefusal ==
    /\ DailyStores
    /\ active_connections \in ConnInits
    /\ channel = [ws \in Sockets |-> <<>>]
    /\ closed = {}
    /\ endpoint = InitEndpoints(active_connections)
    /\ req = [r \in Requests |-> IdleRequest]
    /\ clock = 24 * MinutesPerHour - 1
    /\ tz_aware = FALSE

NextRefusal ==
    \/ \E r \in Requests :
          \/ DailyReadUser(r, "u1")
          \/ DailyProgress(r)
          \/ BroadcastStep(r)
    \/ Tick(24 * MinutesPerHour)

SpecRefusal == InitRefusal /\ [][NextRefusal]_vars

\* ------------------------------------------------------ the tasks alone
\* The tasks an admin has created (POST /admin/tasks): an always claimable
\* task, an always claimable task with a completion limit, and a task with
\* requirements and an expiry.
FirstLogin ==
    [title |-> "First Login", category |-> "daily", coins_reward |-> 5,
     active |-> TRUE, max_completions |-> None, completion_count |-> 0,
     expires_at |-> None]

CommunityMember ==
    [title |-> "Community Member", category |-> "special", coins_reward |-> 20,
     active |-> TRUE, max_completions |-> 1, completion_count |-> 0,
     expires_at |-> None]

CoinCollector ==
    [title |-> "Coin Collector", category |-> "achievement", coins_reward |-> 25,
     active |-> TRUE, max_completions |-> None, completion_count |-> 0,
     expires_at |-> 750]

InitTasks == [t \in TaskIds |->
                CASE t = "t1" -> FirstLogin
                  [] t = "t2" -> CommunityMember
                  [] OTHER -> CoinCollector]

\* The tasks are claimed before or after the expiry; an admin may have set
\* the limit of "Community Member" to 0 (PUT /admin/tasks/t2,
\* TaskCreate.max_completions).
InitTask ==
    /\ InitCommon
    /\ clock \in {0, 24 * MinutesPerHour}
    /\ tz_aware \in BOOLEAN
    /\ tasks \in {InitTasks, [InitTasks EXCEPT !["t2"].max_completions = 0]}
    /\ reward_rules = StoredRules(DefaultRules[1])

\* The steps of a claim after its user was read.
ClaimProgress(r) ==
    \/ ClaimFindTask(r)
    \/ ClaimUpdateUser(r)
    \/ ClaimIncTask(r)
    \/ ClaimInsertCompletion(r)
    \/ ClaimInsertTransaction(r)
    \/ ClaimLogActivity(r)
    \/ ClaimSendBalance(r)
    \/ ClaimSendTaskCompleted(r)

\* The claims made: who claims which task id ("t0" is not stored).
NextTask ==
    \E r \in Requests :
        \/ \E in \in {<<"u1", "t1">>, <<"u1", "t2">>, <<"u2", "t2">>,
                       <<"u1", "t3">>, <<"u1", "t0">>} :
              ClaimReadUser(r, in[1], in[2])
        \/ ClaimProgress(r)
        \/ BroadcastStep(r)

SpecTask == InitTask /\ [][NextTask]_vars

\* ------------------------------------------------- the evaluator alone
\* The tasks whose requirements the evaluator decides from the user.
ProfileExplorer ==
    [title |-> "Profile Explorer", category |-> "daily", coins_reward |-> 10,
     active |-> TRUE, max_completions |-> None, completion_count |-> 0,
     expires_at |-> None]

TaskMaster ==
    [title |-> "Task Master", category |-> "weekly", coins_reward |-> 50,
     active |-> TRUE, max_completions |-> None, completion_count |-> 0,
     expires_at |-> None]

\* default_tasks of init-db, in the order of the code: every task is created
\* without limit and expiry.
DefaultTasks ==
    LET SocialButterfly ==
            [ProfileExplorer EXCEPT !.title = "Social Butterfly",
                                    !.coins_reward = 15]
        LeaderboardClimber ==
            [ProfileExplorer EXCEPT !.title = "Leaderboard Climber",
                                    !.category = "achievement",
                                    !.coins_reward = 100]
        WeeklyWarrior ==
            [TaskMaster EXCEPT !.title = "Weekly Warrior", !.coins_reward = 75]
    IN <<FirstLogin, ProfileExplorer, SocialButterfly, TaskMaster,
         [CoinCollector EXCEPT !.expires_at = None], LeaderboardClimber,
         WeeklyWarrior, [CommunityMember EXCEPT !.max_completions = None]>>

\* The tasks of a store on which init-db has run.
StoredTasks ==
    [t \in {"t" \o ToString(i) : i \in DOMAIN DefaultTasks} |->
        DefaultTasks[CHOOSE i \in DOMAIN DefaultTasks : t = "t" \o ToString(i)]]

\* The most task_completed entries of the day before and of the day in a log.
MaxYesterday == 5
MaxToday == 3

\* An activity log entry as a stored document: the timestamp is a datetime,
\* or an ISO-8601 string when the document was written by another program.
Entry(action, timestamp, iso) ==
    [action |-> action, timestamp |-> timestamp, iso |-> iso, task_id |-> ""]

\* The users evaluated, registered and with a log that goes on with
\* - views of the profile and of the transactions, with up to RecentWindow
\*   entries of an action no task looks for between the old views and the
\*   late ones, or
\* - task completions, some at 23:59 of day 0 and some at 00:00 of day 1,
\*   then none or RecentWindow other entries,
\* and a balance around the Coin Collector target.
EvalUsers ==
    LET Filler(k) == [i \in 1..k |-> Entry("user_login", 0, FALSE)]
        Repeat(en, k) == [i \in 1..k |-> en]
        vp == Entry("viewed_profile", 0, FALSE)
        vt == Entry("viewed_transactions", 0, FALSE)
        ViewLogs ==
            {h \o Filler(k) \o t :
                h \in {<<>>, <<vp>>, <<vt>>, <<vp, vt>>},
                t \in {<<>>, <<vp>>, <<vt>>, <<vt, vp>>},
                k \in {0, RecentWindow - 2, RecentWindow - 1, RecentWindow}}
        CompletionLogs ==
            {Repeat(Entry("task_completed", 24 * MinutesPerHour - 1, iso), y)
                \o Repeat(Entry("task_completed", 24 * MinutesPerHour, iso), d)
                \o Filler(k) :
                  y \in 0..MaxYesterday, d \in 0..MaxToday, iso \in BOOLEAN,
                  k \in {0, RecentWindow}}
    IN {[RegisteredUser("u1") EXCEPT !.coins = c, !.activity_log = @ \o l] :
          c \in {0, CoinTarget - 1, CoinTarget, CoinTarget + 1},
          l \in ViewLogs \cup CompletionLogs}

\* User u1 is any of the users above, on day 1; u2 has only registered.
InitEval ==
    /\ \E eu \in EvalUsers : users = [StoredUsers EXCEPT !["u1"] = eu]
    /\ clock = 24 * MinutesPerHour + 1
    /\ tz_aware = FALSE
    /\ tasks = [t \in TaskIds |->
                 CASE t = "t1" -> ProfileExplorer
                   [] t = "t2" -> [CoinCollector EXCEPT !.expires_at = None]
                   [] OTHER -> TaskMaster]
    /\ reward_rules = StoredRules(DefaultRules[1])
    /\ transactions = {}
    /\ task_completions = {}
    /\ active_connections \in ConnInits
    /\ channel = [ws \in Sockets |-> <<>>]
    /\ closed = {}
    /\ endpoint = InitEndpoints(active_connections)
    /\ req = [r \in Requests |-> IdleRequest]

TasksStep(r) ==
    \/ \E u \in Users : TasksReadUser(r, u)
    \/ TasksFind(r)

NextEval == \E r \in Requests : TasksStep(r)

SpecEval == InitEval /\ [][NextEval]_vars

\* ------------------------------------- the claims of claimable tasks alone
\* Claims of the two tasks without requirements and expiry, by a user who
\* is connected and by one who is not: the same task twice (at once or in
\* turn), by one user or by two, or the two tasks.
InitClaim ==
    /\ InitCommon
    /\ clock = 0
    /\ tz_aware = FALSE
    /\ tasks = InitTasks
    /\ reward_rules = StoredRules(DefaultRules[1])

NextClaim ==
    \E r \in Requests :
        \/ \E in \in {<<"u1", "t1">>, <<"u2", "t1">>, <<"u2", "t2">>} :
              ClaimReadUser(r, in[1], in[2])
        \/ ClaimProgress(r)
        \/ BroadcastStep(r)

SpecClaim == InitClaim /\ [][NextClaim]_vars

\* ------------------------------------------------ the leaderboard alone
\* The order in which the users' documents were inserted: the admin by
\* init-db when the server was set up, then the users (register).
StorageOrder == <<"admin", "u1", "u2">>

\* The balances of the registered users are equal or not.
InitRank ==
    /\ users \in {[u \in DOMAIN StoredUsers |->
                       IF u \in Users THEN [StoredUsers[u] EXCEPT !.coins = c[u]]
                       ELSE StoredUsers[u]] :
                    c \in [Users -> {30, 50}]}
    /\ clock = 0
    /\ tz_aware = FALSE
    /\ tasks = InitTasks
    /\ reward_rules = StoredRules(DefaultRules[1])
    /\ transactions = {}
    /\ task_completions = {}
    /\ active_connections \in ConnInits
    /\ channel = [ws \in Sockets |-> <<>>]
    /\ closed = {}
    /\ endpoint = InitEndpoints(active_connections)
    /\ req = [r \in Requests |-> IdleRequest]

\* The `limit` values asked for: fewer than the users, and more (the default
\* is 10).
NextRank ==
    \E r \in Requests :
        \/ \E u \in Users, limit \in {1, 2, 10} : LeaderboardReadUser(r, u, limit)
        \/ LeaderboardLogView(r)
        \/ LeaderboardAggregate(r)

SpecRank == InitRank /\ [][NextRank]_vars

\* ---------------------------------------- the realtime connections alone
\* Daily rewards, with their personal message and their broadcast, while
\* websockets are opened and closed.
InitRealtime ==
    /\ InitCommon
    /\ clock = 0
    /\ tz_aware = FALSE
    /\ tasks = StoredTasks
    /\ reward_rules = StoredRules(DefaultRules[1])

NextRealtime ==
    \/ \E r \in Requests : DailyStep(r) \/ BroadcastStep(r)
    \/ \E ws \in Sockets, u \in Users : WsOpen(ws, u)
    \/ \E ws \in Sockets : WsAccepted(ws) \/ WsClose(ws) \/ WsDisconnected(ws)

SpecRealtime == InitRealtime /\ [][NextRealtime]_vars

\* ------------------------------------------------------------- /admin
\* Who calls: "anonymous" presents no valid token, the others the token of
\* the stored user of that id: a registered user, the admin of an initialised
\* store, or the user the first request has inserted.
Callers == {"anonymous", "u1", "admin", uuid4(1, 0)}

\* The routes declared with Depends(require_admin).
AdminReads == {"get_all_users", "get_reward_rules", "get_all_tasks",
               "get_all_task_completions"}
AdminRoutes == AdminReads \cup {"create_reward_rule", "create_task",
                                "update_task", "delete_task"}

\* The TaskCreate bodies an admin posts.
TaskData == {FirstLogin, CommunityMember}

\* get_current_user, then require_admin: the status that ends the request,
\* or 200 when the handler is entered.
require_admin(us, caller) ==
    IF caller = "anonymous" THEN 401
    ELSE IF caller \notin DOMAIN us THEN 401
    ELSE IF us[caller].role # "admin" THEN 403
    ELSE 200

\* The first database call of each handler.
AdminEntry(route) ==
    CASE route \in AdminReads -> "admin_read"
      [] route = "create_reward_rule" -> "rule_find"
      [] route = "create_task" -> "task_insert"
      [] route = "update_task" -> "task_find"
      [] route = "delete_task" -> "task_delete"

\* The handler returns its result.
AdminOk(rq) == Finished(rq, [NoResponse EXCEPT !.status = 200, !.outcome = "Ok"])

\* Task(**task_data.dict()) stored under its new id: active, never completed.
insert_task(ts, id, data) ==
    [t \in DOMAIN ts \cup {id} |->
        IF t \in DOMAIN ts THEN ts[t]
        ELSE [data EXCEPT !.active = TRUE, !.completion_count = 0]]

\* A request to a route under require_admin arrives with the token of
\* `caller`: get_current_user answers, require_admin rejects or the handler
\* issues its first database call.
AdminReadUser(r, caller, route, t, data) ==
    /\ Arrives(r)
    /\ caller = "anonymous" \/ caller \in DOMAIN users
    /\ LET status == require_admin(users, caller)
           rq == [req[r] EXCEPT !.kind = route, !.user = caller,
                                !.task_id = t, !.task = data]
       IN req' = [req EXCEPT ![r] =
                    IF status = 200 THEN [rq EXCEPT !.pc = AdminEntry(route)]
                    ELSE Finished(rq, HTTPException(status,
                            IF status = 403 THEN "Forbidden" ELSE "Unauthorized"))]
    /\ UNCHANGED <<clock, tz_aware, db, realtime>>

\* get_all_users, get_reward_rules, get_all_tasks, get_all_task_completions:
\* the find answers and the list is returned.
AdminRead(r) ==
    /\ req[r].pc = "admin_read"
    /\ req' = [req EXCEPT ![r] = AdminOk(req[r])]
    /\ UNCHANGED <<clock, tz_aware, db, realtime>>

\* create_reward_rule: find_one({"key": rule_data.key}) answers.
AdminFindRule(r) ==
    /\ req[r].pc = "rule_find"
    /\ req' = [req EXCEPT ![r] =
                 IF \E x \in reward_rules : x.key = "daily_login"
                 THEN Finished(req[r], HTTPException(400, "RuleExists"))
                 ELSE [req[r] EXCEPT !.pc = "rule_insert"]]
    /\ UNCHANGED <<clock, tz_aware, db, realtime>>

\* create_reward_rule: insert_one(rule_data.dict()), a daily_login rule.
AdminInsertRule(r) ==
    /\ req[r].pc = "rule_insert"
    /\ \E d \in RuleData :
          reward_rules' = reward_rules \cup {[d EXCEPT !.id = uuid4(r, 0)]}
    /\ req' = [req EXCEPT ![r] = AdminOk(req[r])]
    /\ UNCHANGED <<clock, tz_aware, users, tasks, transactions, task_completions,
                   realtime>>

\* create_task: insert_one(task.dict()).
AdminInsertTask(r) ==
    /\ req[r].pc = "task_insert"
    /\ tasks' = insert_task(tasks, uuid4(r, 0), req[r].task)
    /\ req' = [req EXCEPT ![r] = AdminOk(req[r])]
    /\ UNCHANGED <<clock, tz_aware, users, reward_rules, transactions,
                   task_completions, realtime>>

\* update_task: find_one({"id": task_id}) answers.
AdminFindTask(r) ==
    /\ req[r].pc = "task_find"
    /\ req' = [req EXCEPT ![r] =
                 IF req[r].task_id \in DOMAIN tasks
                 THEN [req[r] EXCEPT !.pc = "task_update"]
                 ELSE Finished(req[r], HTTPException(404, "TaskNotFound"))]
    /\ UNCHANGED <<clock, tz_aware, db, realtime>>

\* The stored document is replaced by a new Task built from the body: its
\* completion counter starts again at 0.
AdminReplaceTask(r) ==
    /\ req[r].pc = "task_update"
    /\ tasks' = IF req[r].task_id \in DOMAIN tasks
                THEN [tasks EXCEPT ![req[r].task_id] =
                        [req[r].task EXCEPT !.active = TRUE, !.completion_count = 0]]
                ELSE tasks
    /\ req' = [req EXCEPT ![r].pc = "task_reread"]
    /\ UNCHANGED <<clock, tz_aware, users, reward_rules, transactions,
                   task_completions, realtime>>

\* update_task: update_one({"id": task_id}, {"$set": task_data.dict()}) sets
\* the fields of TaskCreate on the document, if it still exists.
AdminUpdateTask(r) ==
    /\ req[r].pc = "task_update"
    /\ tasks' = IF req[r].task_id \in DOMAIN tasks
                THEN [tasks EXCEPT ![req[r].task_id] =
                        [@ EXCEPT !.title = req[r].task.title,
                                  !.category = req[r].task.category,
                                  !.coins_reward = req[r].task.coins_reward,
                                  !.max_completions = req[r].task.max_completions,
                                  !.expires_at = req[r].task.expires_at]]
                ELSE tasks
    /\ req' = [req EXCEPT ![r].pc = "task_reread"]
    /\ UNCHANGED <<clock, tz_aware, users, reward_rules, transactions,
                   task_completions, realtime>>

\* update_task: the second find_one answers; Task(**None) raises when the
\* document was deleted meanwhile.
AdminRereadTask(r) ==
    /\ req[r].pc = "task_reread"
    /\ req' = [req EXCEPT ![r] =
                 IF req[r].task_id \in DOMAIN tasks THEN AdminOk(req[r])
                 ELSE Finished(req[r], ServerError)]
    /\ UNCHANGED <<clock, tz_aware, db, realtime>>

\* delete_task: delete_one({"id": task_id}); 404 when nothing was deleted.
AdminDeleteTask(r) ==
    /\ req[r].pc = "task_delete"
    /\ IF req[r].task_id \in DOMAIN tasks
       THEN /\ tasks' = [t \in DOMAIN tasks \ {req[r].task_id} |-> tasks[t]]
            /\ req' = [req EXCEPT ![r] = AdminOk(req[r])]
       ELSE /\ tasks' = tasks
            /\ req' = [req EXCEPT ![r] =
                         Finished(req[r], HTTPException(404, "TaskNotFound"))]
    /\ UNCHANGED <<clock, tz_aware, users, reward_rules, transactions,
                   task_completions, realtime>>

\* POST /admin/init-db is declared without a dependency: the handler starts
\* for any caller and looks for the admin's email.
InitDbArrives(r, caller) ==
    /\ Arrives(r)
    /\ caller = "anonymous" \/ caller \in DOMAIN users
    /\ req' = [req EXCEPT ![r].pc = "init_admin_find",
                          ![r].kind = "initialize_database",
                          ![r].user = caller]
    /\ UNCHANGED <<clock, tz_aware, db, realtime>>

\* The loop over default_tasks goes on, or init-db returns its message.
InitDbNextTask(rq) ==
    IF rq.it_pos > Len(DefaultTasks) THEN AdminOk(rq)
    ELSE [rq EXCEPT !.pc = "init_task_find"]

\* The loop over `rules` goes on, or the loop over default_tasks starts.
InitDbNextRule(rq) ==
    IF rq.it_pos > Len(DefaultRules) THEN InitDbNextTask([rq EXCEPT !.it_pos = 1])
    ELSE [rq EXCEPT !.pc = "init_rule_find"]

\* find_one({"email": "admin@vitacoin.com"}) answers.
InitDbFindAdmin(r) ==
    /\ req[r].pc = "init_admin_find"
    /\ req' = [req EXCEPT ![r] =
                 IF \E u \in DOMAIN users : users[u].email = AdminUser.email
                 THEN InitDbNextRule([req[r] EXCEPT !.it_pos = 1])
                 ELSE [req[r] EXCEPT !.pc = "init_admin_insert"]]
    /\ UNCHANGED <<clock, tz_aware, db, realtime>>

\* insert_one(admin_user.dict()): role admin, 1000 coins, a new id.  Then
\* the loop over `rules` starts.
InitDbInsertAdmin(r) ==
    /\ req[r].pc = "init_admin_insert"
    /\ users' = [u \in DOMAIN users \cup {uuid4(r, 0)} |->
                    IF u \in DOMAIN users THEN users[u] ELSE AdminUser]
    /\ req' = [req EXCEPT ![r] = InitDbNextRule([req[r] EXCEPT !.it_pos = 1])]
    /\ UNCHANGED <<clock, tz_aware, tasks, reward_rules, transactions,
                   task_completions, realtime>>

\* find_one({"key": rule_data["key"]}) answers.
InitDbFindRule(r) ==
    /\ req[r].pc = "init_rule_find"
    /\ req' = [req EXCEPT ![r] =
                 IF \E x \in reward_rules : x.key = DefaultRules[req[r].it_pos].key
                 THEN InitDbNextRule([req[r] EXCEPT !.it_pos = @ + 1])
                 ELSE [req[r] EXCEPT !.pc = "init_rule_insert"]]
    /\ UNCHANGED <<clock, tz_aware, db, realtime>>

\* insert_one(rule.dict()) of the default rule, under a new id.
InitDbInsertRule(r) ==
    /\ req[r].pc = "init_rule_insert"
    /\ reward_rules' =
          reward_rules \cup {[DefaultRules[req[r].it_pos] EXCEPT
                                 !.id = uuid4(r, req[r].it_pos)]}
    /\ req' = [req EXCEPT ![r] = InitDbNextRule([req[r] EXCEPT !.it_pos = @ + 1])]
    /\ UNCHANGED <<clock, tz_aware, users, tasks, transactions, task_completions,
                   realtime>>

\* find_one({"title": task_data["title"]}) answers.
InitDbFindTask(r) ==
    /\ req[r].pc = "init_task_find"
    /\ req' = [req EXCEPT ![r] =
                 IF \E t \in DOMAIN tasks :
                       tasks[t].title = DefaultTasks[req[r].it_pos].title
                 THEN InitDbNextTask([req[r] EXCEPT !.it_pos = @ + 1])
                 ELSE [req[r] EXCEPT !.pc = "init_task_insert"]]
    /\ UNCHANGED <<clock, tz_aware, db, realtime>>

\* insert_one(task.dict()) of the default task, under a new id.
InitDbInsertTask(r) ==
    /\ req[r].pc = "init_task_insert"
    /\ tasks' = insert_task(tasks, uuid4(r, req[r].it_pos),
                            DefaultTasks[req[r].it_pos])
    /\ req' = [req EXCEPT ![r] = InitDbNextTask([req[r] EXCEPT !.it_pos = @ + 1])]
    /\ UNCHANGED <<clock, tz_aware, users, reward_rules, transactions,
                   task_completions, realtime>>

\* ------------------------------------------------- the admin routes alone
\* The store is empty but for two registered users, or init-db has run on
\* it (the admin, the four rules and the eight tasks); callers of every kind
\* use the routes under /admin.
InitAdmin ==
    /\ \/ /\ users = RegisteredUsers
          /\ tasks = <<>>
          /\ reward_rules = {}
       \/ /\ users = StoredUsers
          /\ tasks = StoredTasks
          /\ reward_rules = StoredRules(DefaultRules[1])
    /\ transactions = {}
    /\ task_completions = {}
    /\ active_connections = <<>>
    /\ channel = [ws \in Sockets |-> <<>>]
    /\ closed = {}
    /\ endpoint = InitEndpoints(active_connections)
    /\ req = [r \in Requests |-> IdleRequest]
    /\ clock = 0
    /\ tz_aware = FALSE

\* The steps of a request to an admin route after its caller was admitted.
AdminProgress(r) ==
    \/ AdminRead(r)
    \/ AdminFindRule(r)
    \/ AdminInsertRule(r)
    \/ AdminInsertTask(r)
    \/ AdminFindTask(r)
    \/ AdminUpdateTask(r)
    \/ AdminRereadTask(r)
    \/ AdminDeleteTask(r)

\* The steps of init-db after it has started.
InitDbProgress(r) ==
    \/ InitDbFindAdmin(r)
    \/ InitDbInsertAdmin(r)
    \/ InitDbFindRule(r)
    \/ InitDbInsertRule(r)
    \/ InitDbFindTask(r)
    \/ InitDbInsertTask(r)

\* Any caller asks for any admin route; init-db is called once in a
\* behaviour, by any caller: two overlapping calls may each insert any of
\* the twelve default documents.
NextAdmin ==
    \E r \in Requests :
        \/ \E caller \in Callers, route \in AdminRoutes, t \in TaskIds,
                 data \in TaskData :
              AdminReadUser(r, caller, route, t, data)
        \/ AdminProgress(r)
        \/ /\ \A q \in Requests : req[q].kind # "initialize_database"
           /\ \E caller \in Callers : InitDbArrives(r, caller)
        \/ InitDbProgress(r)

SpecAdmin == InitAdmin /\ [][NextAdmin]_vars

\* ------------------------------------------------------ the whole server
\* The store after init-db has run and the admin has kept three tasks, with
\* a limit on one and an expiry on another (DELETE and PUT /admin/tasks).
InitStored ==
    /\ InitCommon
    /\ clock = 0
    /\ tz_aware = FALSE
    /\ tasks = InitTasks
    /\ reward_rules = StoredRules(DefaultRules[1])

\* The requests of every kind interleave with the websockets and the clock,
\* on that store or on the store init-db was never called on: two registered
\* users, one of them connected, and register called with a registered
\* email and with one nobody has registered.
Init ==
    \/ InitStored
    \/ /\ users = RegisteredUsers
       /\ transactions = {}
       /\ task_completions = {}
       /\ active_connections \in ConnInits
       /\ channel = [ws \in Sockets |-> <<>>]
       /\ closed = {}
       /\ endpoint = InitEndpoints(active_connections)
       /\ req = [r \in Requests |-> IdleRequest]
       /\ clock = 0
       /\ tz_aware = FALSE
       /\ tasks = <<>>
       /\ reward_rules = {}

\* Every route, called by or for the connected user, by the admin (the
\* stored one or the one the first request has inserted) and by callers
\* who are not admins; init-db is called once, by a caller without a token;
\* the other user opens a websocket and leaves, and a day passes.
Next ==
    \/ \E r \in Requests :
          \/ DailyReadUser(r, "u1")
          \/ DailyProgress(r)
          \/ ClaimReadUser(r, "u1", "t1")
          \/ ClaimProgress(r)
          \/ TasksReadUser(r, "u1")
          \/ TasksFind(r)
          \/ LeaderboardReadUser(r, "u1", 10)
          \/ LeaderboardLogView(r)
          \/ LeaderboardAggregate(r)
          \/ BroadcastStep(r)
          \/ \E route \in {"get_current_user_info", "track_view_transactions",
                           "track_view_leaderboard", "get_user_transactions"} :
                ViewReadUser(r, "u1", route)
          \/ ViewLogActivity(r)
          \/ TransactionsFind(r)
          \/ CompletedReadUser(r, "u1")
          \/ CompletedFind(r)
          \/ \E password_ok \in BOOLEAN : LoginFindUser(r, "u1", password_ok)
          \/ LoginLogActivity(r)
          \/ \E email \in {"u1", "u3"} : RegisterFindUser(r, email)
          \/ RegisterInsertUser(r)
          \/ RegisterLogActivity(r)
          \/ \E route \in AdminRoutes \ AdminReads :
                AdminReadUser(r, "admin", route, "t1", FirstLogin)
          \/ AdminReadUser(r, uuid4(1, 0), "create_reward_rule", "t1", FirstLogin)
          \/ \E caller \in {"anonymous", "u1", "admin"} :
                AdminReadUser(r, caller, "get_all_users", "t1", FirstLogin)
          \/ AdminProgress(r)
          \/ /\ \A q \in Requests : req[q].kind # "initialize_database"
             /\ InitDbArrives(r, "anonymous")
          \/ InitDbProgress(r)
    \/ WsOpen("c2", "u2")
    \/ WsAccepted("c2")
    \/ WsClose("c2")
    \/ WsDisconnected("c2")
    \/ Tick(24 * MinutesPerHour)

Spec == Init /\ [][Next]_vars

\* --------------------------------------- the messages to one user alone
\* The connected user claims the daily reward and an always claimable task,
\* at once or in turn: every request sends its messages to the same
\* websocket.
NextMessages ==
    \E r \in Requests :
        \/ DailyReadUser(r, "u1")
        \/ ClaimReadUser(r, "u1", "t1")
        \/ DailyProgress(r)
        \/ ClaimProgress(r)
        \/ BroadcastStep(r)

SpecMessages == InitStored /\ [][NextMessages]_vars

\* ------------------------------------------- the broadcast to two users
\* Both users are connected when the behaviour starts; daily rewards are
\* claimed while the clients may go away.
InitFanout ==
    /\ users = StoredUsers
    /\ transactions = {}
    /\ task_completions = {}
    /\ active_connections = <<[user |-> "u1", ws |-> "c1"], [user |-> "u2", ws |-> "c2"]>>
    /\ channel = [ws \in Sockets |-> <<>>]
    /\ closed = {}
    /\ endpoint = InitEndpoints(active_connections)
    /\ req = [r \in Requests |-> IdleRequest]
    /\ clock = 0
    /\ tz_aware = FALSE
    /\ tasks = StoredTasks
    /\ reward_rules = StoredRules(DefaultRules[1])

NextFanout ==
    \/ \E r \in Requests : DailyStep(r) \/ BroadcastStep(r)
    \/ \E ws \in Sockets : WsClose(ws) \/ WsDisconnected(ws)

SpecFanout == InitFanout /\ [][NextFanout]_vars

\* ----------------------------------------------- the rejected claims alone
\* Earlier, at instant 0, u2 claimed "Community Member" (limit 1): the
\* request that did it, and the store after it.
EarlierClaim ==
    [IdleRequest EXCEPT !.kind = "claim", !.user = "u2", !.task_id = "t2",
                        !.task = CommunityMember, !.created_at = 0]

InitReject ==
    /\ users = [StoredUsers EXCEPT
                  !["u2"].coins = CommunityMember.coins_reward,
                  !["u2"].completed_tasks = <<"t2">>,
                  !["u2"].activity_log =
                      Append(@, ActivityLogEntry("task_completed", 0, "t2"))]
    /\ tasks = [InitTasks EXCEPT !["t2"].completion_count = 1]
    /\ task_completions = {TaskCompletion(0, EarlierClaim)}
    /\ transactions = {ClaimTransaction(0, EarlierClaim)}
    /\ reward_rules = StoredRules(DefaultRules[1])
    /\ active_connections \in ConnInits
    /\ channel = [ws \in Sockets |-> <<>>]
    /\ closed = {}
    /\ endpoint = InitEndpoints(active_connections)
    /\ req = [r \in Requests |-> IdleRequest]
    /\ clock \in {0, 24 * MinutesPerHour}
    /\ tz_aware \in BOOLEAN

\* The claims made afterwards: of a task id that is not stored, of the task
\* with requirements and an expiry, of the task whose limit is reached (by
\* the other user, and by u2 again), and of a claimable task.
NextReject ==
    \E r \in Requests :
        \/ \E in \in {<<"u1", "t0">>, <<"u1", "t3">>, <<"u1", "t2">>,
                       <<"u2", "t2">>, <<"u1", "t1">>} :
              ClaimReadUser(r, in[1], in[2])
        \/ ClaimProgress(r)
        \/ BroadcastStep(r)

SpecReject == InitReject /\ [][NextReject]_vars

\* ------------------------------------------- the writes of one user alone
\* The user without a connection claims the daily reward and an always
\* claimable task, at once or in turn: the requests send no personal message
\* and broadcast to the other user's websocket.
NextLedger ==
    \E r \in Requests :
        \/ DailyReadUser(r, "u2")
        \/ ClaimReadUser(r, "u2", "t1")
        \/ DailyFindRule(r)
        \/ DailyUpdateUser(r)
        \/ DailyInsertTransaction(r)
        \/ DailyLogActivity(r)
        \/ ClaimFindTask(r)
        \/ ClaimUpdateUser(r)
        \/ ClaimIncTask(r)
        \/ ClaimInsertCompletion(r)
        \/ ClaimInsertTransaction(r)
        \/ ClaimLogActivity(r)
        \/ BroadcastStep(r)

SpecLedger == InitStored /\ [][NextLedger]_vars

\* --------------------------------------------- the completion counters
\* Both users claim the two tasks without requirements while the admin
\* edits them (PUT /admin/tasks/{task_id}); nobody is connected, so a claim
\* sends no personal message and its broadcast finds no websocket.
InitCounter ==
    /\ users = StoredUsers
    /\ tasks = InitTasks
    /\ reward_rules = StoredRules(DefaultRules[1])
    /\ transactions = {}
    /\ task_completions = {}
    /\ active_connections = <<>>
    /\ channel = [ws \in Sockets |-> <<>>]
    /\ closed = {}
    /\ endpoint = InitEndpoints(active_connections)
    /\ req = [r \in Requests |-> IdleRequest]
    /\ clock = 0
    /\ tz_aware = FALSE

NextCounter ==
    \E r \in Requests :
        \/ \E u \in Users, t \in {"t1", "t2"} : ClaimReadUser(r, u, t)
        \/ ClaimFindTask(r)
        \/ ClaimUpdateUser(r)
        \/ ClaimIncTask(r)
        \/ ClaimInsertCompletion(r)
        \/ ClaimInsertTransaction(r)
        \/ ClaimLogActivity(r)
        \/ GetLeaderboard(r)
        \/ \E t \in {"t1", "t2"}, data \in TaskData :
              AdminReadUser(r, "admin", "update_task", t, data)
        \/ AdminFindTask(r)
        \/ AdminUpdateTask(r)
        \/ AdminRereadTask(r)

SpecCounter == InitCounter /\ [][NextCounter]_vars

\* ------------------------------------------------ Task Master after claims
\* "Task Master" is offered next to the two tasks without requirements:
\* users claim those and list their tasks (GET /tasks), which evaluates
\* Task Master on the activity log the claims have written.
InitMaster ==
    /\ InitCommon
    /\ clock = 0
    /\ tz_aware = FALSE
    /\ tasks = [InitTasks EXCEPT !["t3"] = TaskMaster]
    /\ reward_rules = StoredRules(DefaultRules[1])

NextMaster ==
    \E r \in Requests :
        \/ \E t \in {"t1", "t2"} : ClaimReadUser(r, "u1", t)
        \/ ClaimProgress(r)
        \/ BroadcastStep(r)
        \/ TasksStep(r)

SpecMaster == InitMaster /\ [][NextMaster]_vars

\* ================================================================ claims
DailyRequests == {r \in Requests : req[r].kind = "daily"}
ClaimRequests == {r \in Requests : req[r].kind = "claim"}
Quiescent == \A r \in Requests : req[r].pc \in {"idle", "done"}

\* The messages request r caused, on any websocket.
MessagesOf(r) ==
    {<<ws, i>> \in Sockets \X (1..6 * MaxRequests) :
        i \in DOMAIN channel[ws] /\ channel[ws][i].request = r}

DailyTransactionsOf(u) ==
    {tx \in transactions : tx.user_id = u /\ tx.rule_key = "daily_login"}

\* A task a user who has not completed it can always claim.
AlwaysClaimable(task) ==
    /\ task.active
    /\ task.title \in {"First Login", "Community Member"}
    /\ task.expires_at = None
    /\ task.max_completions = None

\* C1: when a user's ClaimTask requests for one claimable task have all
\* returned, exactly one of them succeeded, every other one failed with
\* AlreadyCompleted, and the task was credited to the user once.
C1_ExactlyOneSuccess ==
    \A u \in Users, t \in DOMAIN tasks :
        LET claims == {r \in ClaimRequests : req[r].user = u /\ req[r].task_id = t}
            succeeded == {r \in claims : req[r].response.success}
        IN (/\ AlwaysClaimable(tasks[t])
            /\ claims # {}
            /\ \A r \in claims : req[r].pc = "done")
           => /\ Cardinality(succeeded) = 1
              /\ \A r \in claims \ succeeded :
                    req[r].response.outcome = "AlreadyCompleted"
              /\ Cardinality({tx \in transactions :
                                tx.user_id = u /\ tx.task_id = t}) = 1

\* C2: whenever no request is in progress, every user's balance is the
\* initial balance plus the amounts of the user's transactions.
C2_BalanceMatchesTransactions ==
    Quiescent =>
        \A u \in Users :
            users[u].coins =
                NewUser.coins + SumAmounts({tx \in transactions : tx.user_id = u})

\* C3: in every state, also in the middle of a request, a user's balance
\* holds a daily credit if and only if the paired transaction is stored.
C3_CreditPairedWithTransaction ==
    \A u \in Users :
        (users[u].coins # NewUser.coins) <=> (DailyTransactionsOf(u) # {})

\* C4: two ApplyDailyReward calls of one user less than 24 hours apart,
\* overlapping or not, give at most one credit: they do not both succeed and
\* no two daily_login transactions of the user are less than 24 hours apart.
C4_OneCreditPerCooldown ==
    /\ \A r1, r2 \in DailyRequests :
          (/\ r1 < r2
           /\ req[r1].user = req[r2].user
           /\ req[r1].pc = "done" /\ req[r2].pc = "done"
           /\ req[r2].now - req[r1].now < 24 * 60)
          => ~(req[r1].response.success /\ req[r2].response.success)
    /\ \A u \in Users : \A tx1, tx2 \in DailyTransactionsOf(u) :
          (tx1 # tx2 /\ tx1.created_at <= tx2.created_at)
          => tx2.created_at - tx1.created_at >= 24 * 60

\* The whole hours that cover m minutes.
CeilHours(m) == (m + 59) \div 60

\* C5: a daily call returns NotEligible exactly when the user it read has a
\* last-daily-reward timestamp less than 24 hours old, and then
\* next_reward_in is the remaining time in whole hours, rounded up; otherwise
\* (with the daily_login rule active, see C7) the call credits the user.
C5_NotEligibleExactly ==
    \A r \in DailyRequests :
        LET user == req[r].current_user
            elapsed == req[r].now - user.last_daily_reward
            inside == user.last_daily_reward # None /\ elapsed < 24 * 60
            resp == req[r].response
        IN /\ (resp.outcome = "NotEligible") <=> (req[r].pc = "done" /\ inside)
           /\ (req[r].pc = "done" /\ inside)
              => resp.next_reward_in = CeilHours(24 * 60 - elapsed)
           /\ (/\ req[r].pc = "done" /\ ~inside
               /\ \E x \in reward_rules : x.key = "daily_login" /\ x.active)
              => /\ resp.success
                 /\ resp.new_balance = user.coins + resp.coins_earned
                 /\ \E tx \in DailyTransactionsOf(req[r].user) :
                       tx.id = r /\ tx.amount = resp.coins_earned /\ tx.type = "credit"

\* C5 happens: a call 23 hours 59 minutes after the credit is refused with
\* next_reward_in = 1.
C5_Witness ==
    \E r \in DailyRequests :
        /\ req[r].pc = "done"
        /\ req[r].now - req[r].current_user.last_daily_reward = 23 * 60 + 59
        /\ req[r].response.outcome = "NotEligible"
        /\ req[r].response.next_reward_in = 1

\* C6: with an active daily_login rule of cooldown_hours = C, a daily call
\* returns NotEligible exactly when less than C hours have passed since the
\* user's last daily reward.
C6_ConfiguredCooldown ==
    \A r \in DailyRequests :
    \A rule \in {x \in reward_rules : x.key = "daily_login" /\ x.active} :
        LET user == req[r].current_user
            elapsed == req[r].now - user.last_daily_reward
        IN req[r].pc = "done"
           => ((req[r].response.outcome = "NotEligible")
               <=> (/\ user.last_daily_reward # None
                    /\ elapsed < rule.cooldown_hours * 60))

\* C7: without an active daily_login rule (none stored, or stored inactive) a
\* daily call fails with RuleNotFound (404), which is not the NotEligible
\* result, only then, and the user's document, the transactions, the
\* connections and the channels are as they were: nothing of the request is
\* stored or sent.
C7_RuleNotFound ==
    \A r \in DailyRequests :
        req[r].pc = "done"
        => /\ (~ \E x \in reward_rules : x.key = "daily_login" /\ x.active)
              <=> (req[r].response.outcome = "RuleNotFound")
           /\ req[r].response.outcome = "RuleNotFound"
              => /\ req[r].response.status = 404
                 /\ ~req[r].response.success
                 /\ req[r].response.next_reward_in = None
                 /\ users[req[r].user] = req[r].current_user
                 /\ users[req[r].user].activity_log
                      = RegisteredUser(req[r].user).activity_log
                 /\ ~ \E tx \in transactions : tx.id = r
                 /\ MessagesOf(r) = {}
                 /\ active_connections \in ConnInits

\* C7 happens: a daily call was made with an inactive rule stored, and failed.
C7_Witness ==
    \E r \in DailyRequests :
        /\ req[r].pc = "done"
        /\ req[r].response.outcome = "RuleNotFound"
        /\ \E x \in reward_rules : x.key = "daily_login" /\ ~x.active

\* C8: a daily call made while the stored last-daily-reward timestamp is less
\* than 24 hours old returns in that step with status 200, success = false
\* and next_reward_in set, and changes neither the users, the transactions,
\* the connections nor the channels.
C8_NotEligibleIsNoError ==
    [][\A r \in Requests : \A u \in Users :
          (/\ req[r].pc = "idle"
           /\ req'[r].kind = "daily"
           /\ req'[r].user = u
           /\ users[u].last_daily_reward # None
           /\ clock - users[u].last_daily_reward < 24 * 60)
          => /\ req'[r].pc = "done"
             /\ req'[r].response.status = 200
             /\ req'[r].response.success = FALSE
             /\ req'[r].response.outcome = "NotEligible"
             /\ req'[r].response.next_reward_in \in 1..24
             /\ UNCHANGED <<users, transactions, task_completions,
                            active_connections, channel>>]_vars

\* C8 happens: a connected user's daily call inside the window has returned
\* the not-eligible result.
C8_Witness ==
    \E r \in DailyRequests :
        /\ req[r].pc = "done"
        /\ req[r].response.outcome = "NotEligible"
        /\ req[r].response.status = 200
        /\ IsConnected(active_connections, req[r].user)
        /\ users[req[r].user].last_daily_reward # None


\* What ClaimTask is to answer for the user, the task and the time it read:
\* the first condition that holds, in the order NotFound, Expired,
\* AlreadyCompleted, RequirementsNotMet, CompletionLimit.
FirstFailure(rq) ==
    IF ~rq.task.active THEN "TaskNotFound"
    ELSE IF rq.task.expires_at # None /\ rq.task.expires_at < rq.now
         THEN "TaskExpired"
    ELSE IF rq.task_id \in Range(rq.current_user.completed_tasks)
         THEN "AlreadyCompleted"
    ELSE IF ~check_task_requirements(rq.current_user, rq.task, DateOf(rq.now)).can_claim
         THEN "RequirementsNotMet"
    ELSE IF rq.task.max_completions # None
            /\ rq.task.completion_count >= rq.task.max_completions
         THEN "CompletionLimitReached"
    ELSE "Success"

\* C9: a ClaimTask that has returned gave the first of NotFound, Expired,
\* AlreadyCompleted, RequirementsNotMet, CompletionLimit that held for what
\* it read, and succeeded when none held.
C9_ErrorPrecedence ==
    \A r \in ClaimRequests :
        req[r].pc = "done" => req[r].response.outcome = FirstFailure(req[r])

\* C10: the steps of a successful ClaimTask raise the stored balance by the
\* task's reward, add the task id to the stored completed set, raise the
\* task's counter by 1 and store one transaction of the reward with the rule
\* key "task_" + category and the task reference.
C10_SuccessfulClaimEffects ==
    [][\A r \in Requests :
          LET u == req[r].user
              t == req[r].task_id
          IN /\ (req[r].kind = "claim" /\ req[r].pc = "update_user"
                    /\ req'[r].pc = "inc_task")
                => /\ users'[u].coins = users[u].coins + req[r].task.coins_reward
                   /\ Range(users'[u].completed_tasks)
                        = Range(users[u].completed_tasks) \cup {t}
             /\ (req[r].pc = "inc_task" /\ req'[r].pc = "insert_completion")
                => tasks'[t].completion_count = tasks[t].completion_count + 1
             /\ (req[r].kind = "claim" /\ req[r].pc = "insert_tx"
                    /\ req'[r].pc = "log_activity")
                => \E tx \in transactions' \ transactions :
                      /\ transactions' = transactions \cup {tx}
                      /\ tx.user_id = u
                      /\ tx.type = "credit"
                      /\ tx.amount = req[r].task.coins_reward
                      /\ tx.rule_key = "task_" \o req[r].task.category
                      /\ tx.task_id = t]_vars


\* The task_completed entries of task t in u's stored activity log.
CompletedEntries(u, t) ==
    {i \in DOMAIN users[u].activity_log :
        /\ users[u].activity_log[i].action = "task_completed"
        /\ users[u].activity_log[i].task_id = t}

\* The claims of task t by u that have passed their log_user_activity call.
LoggedClaims(u, t) ==
    {r \in ClaimRequests :
        /\ req[r].user = u /\ req[r].task_id = t
        /\ \/ req[r].pc \in {"send_balance", "send_task_completed",
                             "get_leaderboard", "broadcast_send"}
           \/ req[r].pc = "done" /\ req[r].response.success}

\* C11 as stated: every successful ClaimTask has appended two task_completed
\* ActivityEvents to the user's activity log.
C11_TwoActivityEvents ==
    \A r \in ClaimRequests :
        (req[r].pc = "done" /\ req[r].response.success)
        => Cardinality(CompletedEntries(req[r].user, req[r].task_id))
             = 2 * Cardinality(LoggedClaims(req[r].user, req[r].task_id))

\* C11 amended: a successful ClaimTask appends exactly one ActivityEvent,
\* task_completed with the task id, to the user's activity log: the log holds
\* one such entry per claim that passed its logging step, and a log changes
\* only by that one append.
C11_OneActivityEvent ==
    /\ [](\A u \in Users : \A t \in TaskIds :
            Cardinality(CompletedEntries(u, t)) = Cardinality(LoggedClaims(u, t)))
    /\ [][\A u \in Users :
            users'[u].activity_log # users[u].activity_log
            => \E r \in ClaimRequests :
                  /\ req[r].user = u
                  /\ req[r].pc = "log_activity" /\ req'[r].pc # "log_activity"
                  /\ \E e \in [action : {"task_completed"},
                               timestamp : {req[r].activity_ts},
                               iso : BOOLEAN,
                               task_id : {req[r].task_id}] :
                        users'[u].activity_log = Append(users[u].activity_log, e)]_vars

\* C11 happens: one user's two successful claims of different tasks have
\* returned.
C11_Witness ==
    \E r1, r2 \in ClaimRequests :
        /\ r1 # r2 /\ req[r1].user = req[r2].user
        /\ req[r1].task_id # req[r2].task_id
        /\ req[r1].pc = "done" /\ req[r1].response.success
        /\ req[r2].pc = "done" /\ req[r2].response.success
        /\ Cardinality({i \in DOMAIN users[req[r1].user].activity_log :
                          users[req[r1].user].activity_log[i].action
                            = "task_completed"}) = 2


\* How many times task id t appears in the sequence s.
Occurrences(s, t) == Cardinality({i \in DOMAIN s : s[i] = t})

\* C12: in every state, for every user and task id, the user's transactions
\* that reference the task id are as many as the appearances of the task id
\* in the user's completed tasks, and at most one.
C12_TransactionsMatchCompleted ==
    \A u \in Users : \A t \in TaskIds :
        LET n == Cardinality({tx \in transactions :
                                tx.user_id = u /\ tx.task_id = t})
        IN /\ n = Occurrences(users[u].completed_tasks, t)
           /\ n <= 1

\* C12 when no request is in progress: the mismatch is not only the window
\* between a claim's two writes.
C12_AtRest == Quiescent => C12_TransactionsMatchCompleted


\* C13: a ClaimTask that read a task with a configured limit M >= 0 (0
\* included) whose counter is >= M, and that passes the not-found, expired,
\* already-completed and requirements checks, returns CompletionLimitReached
\* and stores nothing.
C13_CompletionLimit ==
    \A r \in ClaimRequests :
        (/\ req[r].pc \notin {"idle", "find_task"}
         /\ req[r].task.active
         /\ req[r].task.expires_at = None
         /\ req[r].task_id \notin Range(req[r].current_user.completed_tasks)
         /\ check_task_requirements(req[r].current_user, req[r].task,
                                    DateOf(req[r].now)).can_claim
         /\ req[r].task.max_completions # None
         /\ req[r].task.max_completions >= 0
         /\ req[r].task.completion_count >= req[r].task.max_completions)
        => /\ req[r].pc = "done"
           /\ req[r].response.outcome = "CompletionLimitReached"
           /\ req[r].response.status = 400
           /\ ~ \E tx \in transactions : tx.id = r
           /\ ~ \E c \in task_completions : c.id = r


TasksRequests == {r \in Requests : req[r].kind = "tasks"}

\* C14: the step in which a request evaluates the requirements of the listed
\* tasks leaves the stored users (activity log, balance, completed tasks)
\* and the stored tasks as they were, and the user object it evaluated
\* unchanged.
C14_EvaluationReadOnly ==
    [][\A r \in Requests :
          (req[r].pc = "find_tasks" /\ req'[r].pc = "done")
          => /\ users' = users
             /\ tasks' = tasks
             /\ transactions' = transactions
             /\ req'[r].current_user = req[r].current_user
             /\ DOMAIN req'[r].evaluations = ListedTasks(tasks, req[r].now)]_vars

\* C14 happens: a user with a non-empty log and a balance had the three
\* tasks evaluated.
C14_Witness ==
    \E r \in TasksRequests :
        /\ req[r].pc = "done"
        /\ DOMAIN req[r].evaluations = TaskIds
        /\ req[r].current_user.activity_log # <<>>
        /\ req[r].current_user.coins > 0
        /\ users[req[r].user] = req[r].current_user


\* The action occurs among the last 20 entries of the log.
AmongLast20(log, action) ==
    \E i \in DOMAIN log : i > Len(log) - 20 /\ log[i].action = action

\* C15: Profile Explorer is claimable exactly when viewed_profile and
\* viewed_transactions both occur among the last 20 entries of the user's
\* activity log, older entries not counting; when it is not, the progress
\* names exactly the missing actions, profile before transactions.
C15_ProfileExplorer ==
    \A r \in TasksRequests :
        (req[r].pc = "done" /\ "t1" \in DOMAIN req[r].evaluations)
        => LET log == req[r].current_user.activity_log
               profile == AmongLast20(log, "viewed_profile")
               history == AmongLast20(log, "viewed_transactions")
               e == req[r].evaluations["t1"]
           IN /\ ~e.raises
              /\ e.can_claim <=> (profile /\ history)
              /\ e.can_claim => e.progress.status = "completed"
              /\ ~e.can_claim
                 => /\ e.progress.status = "in_progress"
                    /\ e.progress.needed =
                         (IF profile THEN <<>> ELSE <<"View your profile">>)
                         \o (IF history THEN <<>>
                             ELSE <<"Check your transaction history">>)

\* C15 happens: both views are in the log, the profile view only in an entry
\* older than the last 20, and the progress names it alone as missing.
C15_Witness ==
    \E r \in TasksRequests :
        /\ req[r].pc = "done"
        /\ "t1" \in DOMAIN req[r].evaluations
        /\ LET log == req[r].current_user.activity_log
           IN /\ Len(log) > 20
              /\ \E i \in DOMAIN log : log[i].action = "viewed_profile"
              /\ ~AmongLast20(log, "viewed_profile")
              /\ AmongLast20(log, "viewed_transactions")
        /\ ~req[r].evaluations["t1"].can_claim
        /\ req[r].evaluations["t1"].progress.needed = <<"View your profile">>

\* C16: Coin Collector is claimable exactly when the balance is >= 100;
\* when it is not, the progress reports the balance, the target 100 and the
\* remaining 100 - balance, which is > 0.
C16_CoinCollector ==
    \A r \in TasksRequests :
        (req[r].pc = "done" /\ "t2" \in DOMAIN req[r].evaluations)
        => LET coins == req[r].current_user.coins
               e == req[r].evaluations["t2"]
           IN /\ ~e.raises
              /\ e.can_claim <=> coins >= 100
              /\ e.can_claim => e.progress.status = "completed"
              /\ ~e.can_claim
                 => /\ e.progress.status = "in_progress"
                    /\ e.progress.current = coins
                    /\ e.progress.target = 100
                    /\ e.progress.remaining = 100 - coins
                    /\ e.progress.remaining > 0

\* C16 happens: a balance of 99 was evaluated: not claimable, 1 remaining.
C16_Witness ==
    \E r \in TasksRequests :
        /\ req[r].pc = "done"
        /\ "t2" \in DOMAIN req[r].evaluations
        /\ req[r].current_user.coins = 99
        /\ ~req[r].evaluations["t2"].can_claim
        /\ req[r].evaluations["t2"].progress.remaining = 1

\* The task_completed entries of the log stamped on the day of minute `now`.
CompletedOnDayOf(log, now) ==
    Cardinality({i \in DOMAIN log :
                    /\ log[i].action = "task_completed"
                    /\ log[i].timestamp \div (24 * 60) = now \div (24 * 60)})

\* C17: Task Master counts the task_completed entries of the whole log that
\* are stamped on the current UTC day and is claimable exactly when they are
\* 3 or more; when they are fewer the progress reports their number and the
\* target 3 (2 today and 5 yesterday: achieved 2, target 3, not claimable).
C17_TaskMaster ==
    \A r \in TasksRequests :
        (req[r].pc = "done" /\ "t3" \in DOMAIN req[r].evaluations)
        => LET achieved == CompletedOnDayOf(req[r].current_user.activity_log,
                                            req[r].now)
               e == req[r].evaluations["t3"]
           IN /\ ~e.raises
              /\ e.can_claim <=> achieved >= 3
              /\ ~e.can_claim
                 => /\ e.progress.current = achieved
                    /\ e.progress.target = 3


RankRequests == {r \in Requests : req[r].kind = "leaderboard"}

\* The position of user u in the storage order.
StoredAt(u) == CHOOSE i \in DOMAIN StorageOrder : StorageOrder[i] = u

\* C18: Rank(limit) returns min(limit, number of users) entries, balance
\* descending, users of equal balance in their storage order, and the i-th
\* entry has rank i.
C18_Rank ==
    \A r \in RankRequests :
        req[r].pc = "done"
        => LET lb == req[r].ranking
               n == IF req[r].limit < Cardinality(DOMAIN users) THEN req[r].limit
                    ELSE Cardinality(DOMAIN users)
           IN /\ Len(lb) = n
              /\ \A i \in 1..n : lb[i].rank = i
              /\ \A i, j \in 1..n :
                    i < j => \/ lb[i].coins > lb[j].coins
                             \/ /\ lb[i].coins = lb[j].coins
                                /\ StoredAt(lb[i].id) < StoredAt(lb[j].id)
              /\ \A i \in 1..n : \A u \in DOMAIN users :
                    (\A j \in 1..n : lb[j].id # u)
                    => \/ lb[i].coins > users[u].coins
                       \/ /\ lb[i].coins = users[u].coins
                          /\ StoredAt(lb[i].id) < StoredAt(u)


\* The websockets accepted under user id u, and the one accepted last.
AcceptedAs(u) ==
    {ws \in Sockets :
        endpoint[ws].user = u /\ endpoint[ws].state \in {"open", "closing", "ended"}}

IsLatestOf(ws, u) ==
    /\ ws \in AcceptedAs(u)
    /\ \A w \in AcceptedAs(u) : endpoint[w].since <= endpoint[ws].since

\* C19: the connection map holds at most one entry per user id, and a
\* connection accepted under a user id replaces the earlier ones: while the
\* connection accepted last for a user is open it is the one registered for
\* the user, so that what is sent to the user goes to it and to no other.
C19_LaterConnectionReplaces ==
    /\ \A i, j \in DOMAIN active_connections :
          (i # j /\ active_connections[i] # Hole)
          => active_connections[i].user # active_connections[j].user
    /\ \A u \in Users : \A ws \in Sockets :
          (IsLatestOf(ws, u) /\ endpoint[ws].state = "open")
          => /\ IsConnected(active_connections, u)
             /\ SocketOf(active_connections, u) = ws

\* C20: when a send_text raises, in send_personal_message or in
\* broadcast_leaderboard, the request does not end with an error, and the
\* user id is removed from the connections: at once for a personal message,
\* and for a broadcast when it ends, with every id whose send raised.
C20_FailedSendRemoves ==
    [][\A r \in Requests :
          (req[r].pc \in {"send_balance", "send_task_completed", "broadcast_send"}
           /\ req[r].ws \in closed
           /\ req'[r] # req[r])
          => /\ req'[r].response.status # 500
             /\ req[r].pc # "broadcast_send"
                => ~IsConnected(active_connections', req[r].user)
             /\ (req[r].pc = "broadcast_send" /\ req'[r].pc = "done")
                => \A u \in Range(req[r].disconnected) \cup {req[r].it_user} :
                      ~IsConnected(active_connections', u)]_vars


\* C21: while a request's broadcast_leaderboard pass is suspended on a send,
\* no step of another request or websocket handler changes the connection
\* set, and the step that resumes the pass does not fail the request.
C21_NoMutationDuringBroadcast ==
    [][\A r \in Requests :
          req[r].pc = "broadcast_send"
          => /\ req'[r] = req[r] => active_connections' = active_connections
             /\ req'[r].response.status # 500]_vars


\* The positions on websocket ws of request r's messages of one type.
PositionsOf(ws, r, type) ==
    {i \in DOMAIN channel[ws] :
        channel[ws][i].request = r /\ channel[ws][i].type = type}

\* C22: on every websocket a request's balance_update comes before its
\* leaderboard_update, and no message of a request is on a websocket twice.
C22_PerUserOrder ==
    \A ws \in Sockets : \A r \in Requests :
       /\ \A i \in PositionsOf(ws, r, "balance_update") :
             \A j \in PositionsOf(ws, r, "leaderboard_update") : i < j
       /\ \A i \in PositionsOf(ws, r, "task_completed") :
             /\ \A j \in PositionsOf(ws, r, "leaderboard_update") : i < j
             /\ \A j \in PositionsOf(ws, r, "balance_update") : j < i
       /\ \A type \in {"balance_update", "task_completed", "leaderboard_update"} :
             Cardinality(PositionsOf(ws, r, type)) <= 1


\* A daily reward and a task claim of the same user ran at once: a message
\* of the one lies between the balance_update and the leaderboard_update of
\* the other.
C22_Witness ==
    \E r, q \in Requests :
       /\ r # q
       /\ req[r].pc = "done" /\ req[r].response.success
       /\ req[q].pc = "done" /\ req[q].response.success
       /\ {req[r].kind, req[q].kind} = {"daily", "claim"}
       /\ \E i, j, k \in DOMAIN channel["c1"] :
             /\ i < j /\ j < k
             /\ i \in PositionsOf("c1", r, "balance_update")
             /\ channel["c1"][j].request = q
             /\ k \in PositionsOf("c1", r, "leaderboard_update")


\* C23: a daily reward request whose checks passed and whose ledger writes
\* were made returns success, whatever its sends and the connections did.
C23_RealtimeFailureAbsorbed ==
    \A r \in DailyRequests :
       (req[r].pc = "done" /\ \E tx \in transactions : tx.id = r)
       => /\ req[r].response.status = 200
          /\ req[r].response.success


\* The websockets that were registered and open during the whole behaviour.
StayedConnected ==
    {ws \in Sockets :
        /\ endpoint[ws].state = "open" /\ endpoint[ws].since = 0
        /\ IsConnected(active_connections, endpoint[ws].user)
        /\ SocketOf(active_connections, endpoint[ws].user) = ws}

\* C24: when a daily reward request that credited its user has ended, every
\* user connected all along has received its leaderboard_update, in which
\* the credited user's balance includes the credit, and the credited user
\* has received before it the balance_update with the new balance and the
\* rule's points.
C24_CreditThenEvents ==
    \A r \in DailyRequests :
       (req[r].pc = "done" /\ \E tx \in transactions : tx.id = r)
       => \A ws \in StayedConnected :
             \E k \in PositionsOf(ws, r, "leaderboard_update") :
                /\ \E e \in Range(channel[ws][k].data) :
                      e.id = req[r].user /\ e.coins >= req[r].new_coins
                /\ endpoint[ws].user = req[r].user
                   => \E i \in PositionsOf(ws, r, "balance_update") :
                         /\ i < k
                         /\ channel[ws][i].coins = req[r].new_coins
                         /\ channel[ws][i].delta = req[r].points


\* The requests of user u whose balance write was made.
BalanceWritten(u) ==
    {r \in Requests :
        /\ req[r].user = u
        /\ req[r].kind \in {"daily", "claim"}
        /\ \/ req[r].pc \in {"inc_task", "insert_completion", "insert_tx",
                             "log_activity", "send_balance", "send_task_completed",
                             "get_leaderboard", "broadcast_send"}
           \/ req[r].pc = "done" /\ \E tx \in transactions : tx.id = r}

\* The entries of user u's activity log that record a credit.
CreditEntries(u) ==
    {i \in DOMAIN users[u].activity_log :
        users[u].activity_log[i].action \in {"daily_reward_claimed", "task_completed"}}

\* C25: every activity entry daily_reward_claimed or task_completed of a user
\* belongs to a request whose balance write was already made: there are never
\* more such entries than requests of the user past their balance write, and
\* the step that appends one is taken by a request past its balance write
\* and leaves the balance alone.
C25_ActivityAfterBalance ==
    /\ [](\A u \in Users :
            Cardinality(CreditEntries(u)) <= Cardinality(BalanceWritten(u)))
    /\ [][\A u \in Users :
            Len(users'[u].activity_log) > Len(users[u].activity_log)
            => /\ users'[u].coins = users[u].coins
               /\ \E r \in BalanceWritten(u) :
                     req[r].pc = "log_activity" /\ req'[r].pc # "log_activity"]_vars

\* A user's log holds the entry of a daily reward and the entry of a claim.
C25_Witness ==
    \E u \in Users :
       \E i, j \in CreditEntries(u) :
          /\ users[u].activity_log[i].action = "daily_reward_claimed"
          /\ users[u].activity_log[j].action = "task_completed"


\* The kinds of the requests to the routes under /admin.
AdminKinds == AdminRoutes \cup {"initialize_database"}

\* The caller of request rq is not a stored user with role admin.
NotAdmin(rq) ==
    \/ rq.user \notin DOMAIN users
    \/ users[rq.user].role # "admin"

\* C26: a request to a route under /admin whose caller is not a stored admin
\* never ends with a successful result, ends with 403 when its caller is a
\* stored user, and none of its steps changes the store.
C26_AdminOnly ==
    /\ [](\A r \in Requests :
            (req[r].kind \in AdminKinds /\ req[r].pc = "done" /\ NotAdmin(req[r]))
            => /\ req[r].response.status # 200
               /\ req[r].user \in DOMAIN users => req[r].response.status = 403)
    /\ [][\A r \in Requests :
            (req'[r].kind \in AdminKinds /\ NotAdmin(req'[r]) /\ req'[r] # req[r])
            => db' = db]_vars


\* C27: a registered connection leaves the connection map only when its own
\* websocket has disconnected or a send on it has failed: the step that
\* removes an entry finds its websocket closed.
C27_RemovedOnlyWhenClosed ==
    [][\A i \in DOMAIN active_connections :
          (/\ active_connections[i] # Hole
           /\ \/ ~IsConnected(active_connections', active_connections[i].user)
              \/ SocketOf(active_connections', active_connections[i].user)
                  # active_connections[i].ws)
          => \/ active_connections[i].ws \in closed
             \/ \E ws \in Sockets :
                   /\ endpoint[ws].user = active_connections[i].user
                   /\ endpoint[ws].state = "accepting"
                   /\ endpoint'[ws].state = "open"]_vars


\* C28: the completion counter of a task with a configured limit M >= 1
\* never exceeds M.
C28_CounterWithinLimit ==
    \A t \in DOMAIN tasks :
       (tasks[t].max_completions # None /\ tasks[t].max_completions >= 1)
       => tasks[t].completion_count <= tasks[t].max_completions


\* C29: a task id in a user's completed-task set is still in it after every
\* step.
C29_CompletedSetGrows ==
    [][\A u \in Users :
          Range(users[u].completed_tasks) \subseteq Range(users'[u].completed_tasks)]_vars


\* The ways a claim is rejected.
ClaimFailures == {"TaskNotFound", "TaskExpired", "AlreadyCompleted",
                  "RequirementsNotMet", "CompletionLimitReached"}

\* C30: a claim that ends with TaskNotFound, TaskExpired, AlreadyCompleted,
\* RequirementsNotMet or CompletionLimitReached has taken two steps, its
\* arrival and its checks, and neither changed the store or sent a message:
\* no transaction, completion record or message is of that request.
C30_RejectedClaimChangesNothing ==
    /\ [](\A r \in ClaimRequests :
            (req[r].pc = "done" /\ req[r].response.outcome \in ClaimFailures)
            => /\ MessagesOf(r) = {}
               /\ ~ \E tx \in transactions : tx.id = r
               /\ ~ \E c \in task_completions : c.id = r)
    /\ [][\A r \in Requests :
            /\ (req[r].pc = "idle" /\ req'[r].kind = "claim")
               => (db' = db /\ realtime' = realtime)
            /\ (req[r].pc # "done" /\ req'[r].pc = "done"
                /\ req'[r].response.outcome \in ClaimFailures)
               => /\ req[r].pc = "find_task"
                  /\ db' = db
                  /\ realtime' = realtime]_vars

\* A claim of the connected user was rejected, next to a claim that
\* succeeded.
C30_Witness ==
    \E r, q \in ClaimRequests :
       /\ req[r].pc = "done" /\ req[r].response.outcome \in ClaimFailures
       /\ req[q].pc = "done" /\ req[q].response.success
       /\ req[r].user = "u1"


\* No ClaimTask request is between its arrival and its response.
NoClaimInProgress == \A r \in ClaimRequests : req[r].pc = "done"

\* The transactions that reference task t, of any user.
TransactionsOfTask(t) == {tx \in transactions : tx.task_id = t}

\* C31: whenever no ClaimTask request is in progress, the completion counter
\* of every task equals the number of transactions that reference the task,
\* and no step lowers the counter of a task.
C31_CounterMatchesTransactions ==
    /\ [](NoClaimInProgress
          => \A t \in DOMAIN tasks :
                tasks[t].completion_count = Cardinality(TransactionsOfTask(t)))
    /\ [][\A t \in DOMAIN tasks \cap DOMAIN tasks' :
            tasks'[t].completion_count >= tasks[t].completion_count]_vars

\* A claim of a task has succeeded and the admin has given the task another
\* title: its counter is 1.
C31_Witness ==
    \E t \in DOMAIN tasks :
       /\ tasks[t].completion_count = 1
       /\ tasks[t].title # InitTasks[t].title
       /\ NoClaimInProgress
       /\ \E r \in Requests :
             /\ req[r].kind = "update_task" /\ req[r].task_id = t
             /\ req[r].pc = "done" /\ req[r].response.status = 200


\* The task_completed entries of a log stamped on the day of instant `now`,
\* whatever the type of the stored timestamp.
StampedOnDayOf(log, now) ==
    Cardinality({i \in DOMAIN log :
                    /\ log[i].action = "task_completed"
                    /\ DateOf(log[i].timestamp) = DateOf(now)})

\* C32: every evaluation made for a task list returns a result with a status
\* tag and never raises, so the request is answered; and Task Master is
\* reported claimable when the user's log holds three task_completed
\* entries of the current day.
C32_EvaluatorNeverRaises ==
    \A r \in TasksRequests :
       req[r].pc = "done"
       => /\ req[r].response.status = 200
          /\ \A t \in DOMAIN req[r].evaluations :
                LET e == req[r].evaluations[t]
                IN /\ ~e.raises
                   /\ e.progress.status \in {"completed", "in_progress"}
                   /\ (tasks[t].title = "Task Master"
                       /\ StampedOnDayOf(req[r].current_user.activity_log,
                                         req[r].now) >= TaskMasterTarget)
                      => e.can_claim

=============================================================================
